---------------------------- MODULE Spec2Model ----------------------------
(***************************************************************************)
(* A model of the sbpf ELF64 parser (src/src/elf_parser/mod.rs): parse,    *)
(* the accessors of the parsed view, and the helpers they call; and of the *)
(* disassembler (src/src/disassembler.rs): disassemble_instruction, the    *)
(* arms of its match in source order, and the strings it formats.          *)
(*                                                                         *)
(* The byte buffer handed to Elf64::parse is modelled as typed memory: its *)
(* length, the address of its first byte, the file header found at offset  *)
(* 0, and the records laid out in it (program headers, section headers,    *)
(* string bytes, dynamic entries), each at its own offset.  Every byte not *)
(* covered by one of these is zero.  The parser reads the buffer only      *)
(* through the typed reads below, after the bounds, size and alignment     *)
(* checks of the code.                                                     *)
(*                                                                         *)
(* The machine word (usize, u64) is modelled 30 bits wide: TLC computes    *)
(* with 32-bit integers, so that checked arithmetic overflows at           *)
(* USIZE_MAX = 2^30 - 1 instead of 2^64 - 1.  The casts of the             *)
(* disassembler (as usize, as u32) wrap at the same width.  The opcode     *)
(* numbers are those of the sbpf encoding (class, source and operation or  *)
(* size added up), under which several opcodes have two names.             *)
(***************************************************************************)
EXTENDS Integers, Sequences, FiniteSets, TLC

VARIABLES
    elf_bytes,   \* the byte buffer given to Elf64::parse
    parsed,      \* the result of Elf64::parse(elf_bytes), or NotParsed
    query,       \* the last call made beside parse, with its arguments and result
    history,     \* what was done to the buffer since it was first parsed
    steps        \* the steps the last call of Elf64::parse ran, each with its result

vars == <<elf_bytes, parsed, query, history, steps>>

-----------------------------------------------------------------------------
(* Results and options *)

Ok(v) == [ok |-> TRUE, v |-> v]

E(kind) == [kind |-> kind, text |-> <<>>, max |-> 0]

Err(e) == [ok |-> FALSE, err |-> e]

None == [some |-> FALSE]

Some(x) == [some |-> TRUE, v |-> x]

Range(s, e) == [start |-> s, end |-> e]

Min(a, b) == IF a <= b THEN a ELSE b

-----------------------------------------------------------------------------
(* Machine word and checked arithmetic *)

USIZE_MAX == 2^30 - 1

\* err_checked_add that wraps around instead of failing
err_checked_add_wrapping(a, b) == Ok((a + b) % (USIZE_MAX + 1))

\* ErrCheckedArithmetic::err_checked_add, with From<ArithmeticOverflow>
err_checked_add(a, b) ==
    IF a + b > USIZE_MAX THEN Err(E("OutOfBounds")) ELSE Ok(a + b)

err_checked_sub(a, b) ==
    IF a < b THEN Err(E("OutOfBounds")) ELSE Ok(a - b)

err_checked_mul(a, b) ==
    IF a * b > USIZE_MAX THEN Err(E("OutOfBounds")) ELSE Ok(a * b)

-----------------------------------------------------------------------------
(* Constants of consts.rs and record layouts of types.rs *)

ELFMAG == <<127, 69, 76, 70>>

ELFCLASS64 == 2

ELFDATA2LSB == 1

EV_CURRENT == 1

SHN_UNDEF == 0

PT_NULL == 0

PT_LOAD == 1

PT_DYNAMIC == 2

SHT_NULL == 0

SHT_PROGBITS == 1

SHT_SYMTAB == 2

SHT_STRTAB == 3

SHT_DYNAMIC == 6

SHT_NOBITS == 8

SHT_REL == 9

SHT_DYNSYM == 11

DT_NULL == 0

DT_SYMTAB == 6

DT_REL == 17

DT_RELSZ == 18

DT_RELENT == 19

DT_NUM == 35

size_of ==
    [Elf64Ehdr |-> 64, Elf64Phdr |-> 56, Elf64Shdr |-> 64,
     Elf64Sym |-> 24, Elf64Rel |-> 16, Elf64Dyn |-> 16]

align_of ==
    [Elf64Ehdr |-> 8, Elf64Phdr |-> 8, Elf64Shdr |-> 8,
     Elf64Sym |-> 8, Elf64Rel |-> 8, Elf64Dyn |-> 8]

SECTION_NAME_LENGTH_MAXIMUM == 16

SYMBOL_NAME_LENGTH_MAXIMUM == 64

\* b".symtab", b".strtab", b".dynstr"
NAME_SYMTAB == <<46, 115, 121, 109, 116, 97, 98>>

NAME_STRTAB == <<46, 115, 116, 114, 116, 97, 98>>

NAME_DYNSTR == <<46, 100, 121, 110, 115, 116, 114>>

-----------------------------------------------------------------------------
(* Typed memory: what the buffer holds at an offset.                        *)
(* elf_bytes = [len, addr, eh, ph_at, ph, sh_at, sh, str_at, str, dyn_at,   *)
(* dyn]: eh is the Elf64Ehdr at offset 0, ph the Elf64Phdr records laid out *)
(* from ph_at, sh the Elf64Shdr records from sh_at, str the bytes laid out  *)
(* from each offset of str_at, dyn the Elf64Dyn records from dyn_at; all    *)
(* other bytes are zero.  Bytes at len and beyond are not in the buffer.    *)

ZeroPhdr == [p_type |-> 0, p_offset |-> 0, p_vaddr |-> 0, p_filesz |-> 0, p_memsz |-> 0]

ZeroShdr == [sh_name |-> 0, sh_type |-> 0, sh_addr |-> 0, sh_offset |-> 0, sh_size |-> 0]

ZeroDyn == [d_tag |-> 0, d_val |-> 0]

\* the record of `size` bytes at offset `o`, when `recs` are laid out from `at`
RecordAt(recs, at, size, o, zero) ==
    IF o >= at /\ o < at + Len(recs) * size /\ (o - at) % size = 0
    THEN recs[((o - at) \div size) + 1]
    ELSE zero

PhdrAt(bytes, o) == RecordAt(bytes.ph, bytes.ph_at, size_of.Elf64Phdr, o, ZeroPhdr)

ShdrAt(bytes, o) == RecordAt(bytes.sh, bytes.sh_at, size_of.Elf64Shdr, o, ZeroShdr)

DynAt(bytes, o) == RecordAt(bytes.dyn, bytes.dyn_at, size_of.Elf64Dyn, o, ZeroDyn)

ByteAt(bytes, o) ==
    IF \E at \in bytes.str_at : o >= at /\ o < at + Len(bytes.str)
    THEN LET at == CHOOSE at \in bytes.str_at : o >= at /\ o < at + Len(bytes.str)
         IN  bytes.str[o - at + 1]
    ELSE 0

\* bytes[range] as a sequence of bytes (range within the buffer)
BytesIn(bytes, range) ==
    [i \in 1..(range.end - range.start) |-> ByteAt(bytes, range.start + i - 1)]

\* a typed slice &[T]: where it starts in the buffer and how many records it has
SliceEnd(slice) == slice.start + slice.len * size_of[slice.T]

\* the i-th (1-based) record of a typed slice
PhdrOf(bytes, slice, i) == PhdrAt(bytes, slice.start + (i - 1) * size_of.Elf64Phdr)

ShdrOf(bytes, slice, i) == ShdrAt(bytes, slice.start + (i - 1) * size_of.Elf64Shdr)

DynOf(bytes, slice, i) == DynAt(bytes, slice.start + (i - 1) * size_of.Elf64Dyn)

-----------------------------------------------------------------------------
(* Elf64: helpers *)

\* Range<usize>::len (ExactSizeIterator): 0 for an inverted range
RangeLen(range) == IF range.start < range.end THEN range.end - range.start ELSE 0

\* <[u8]>::get(range)
SliceGet(bytes, range) == range.start <= range.end /\ range.end <= bytes.len

check_that_there_is_no_overlap(range_a, range_b) ==
    IF range_a.end <= range_b.start \/ range_b.end <= range_a.start
    THEN Ok(TRUE)
    ELSE Err(E("Overlap"))

\* slice_from_bytes with the bounds check before the size check
slice_from_bytes_bounds_first(T, bytes, range) ==
    IF ~SliceGet(bytes, range)
    THEN Err(E("OutOfBounds"))
    ELSE IF RangeLen(range) % size_of[T] /= 0
    THEN Err(E("InvalidSize"))
    ELSE IF (bytes.addr + range.start) % align_of[T] /= 0
    THEN Err(E("InvalidAlignment"))
    ELSE Ok([T |-> T, start |-> range.start, len |-> RangeLen(range) \div size_of[T]])

\* slice_from_bytes without the bounds check
slice_from_bytes_unbounded(T, bytes, range) ==
    IF RangeLen(range) % size_of[T] /= 0
    THEN Err(E("InvalidSize"))
    ELSE IF (bytes.addr + range.start) % align_of[T] /= 0
    THEN Err(E("InvalidAlignment"))
    ELSE Ok([T |-> T, start |-> range.start, len |-> RangeLen(range) \div size_of[T]])

slice_from_bytes(T, bytes, range) ==
    IF RangeLen(range) % size_of[T] /= 0
    THEN Err(E("InvalidSize"))
    ELSE IF ~SliceGet(bytes, range)
    THEN Err(E("OutOfBounds"))
    ELSE IF (bytes.addr + range.start) % align_of[T] /= 0
    THEN Err(E("InvalidAlignment"))
    ELSE Ok([T |-> T, start |-> range.start, len |-> RangeLen(range) \div size_of[T]])

slice_from_program_header(T, bytes, program_header) ==
    LET end == err_checked_add(program_header.p_offset, program_header.p_filesz)
    IN  IF ~end.ok THEN end
        ELSE slice_from_bytes(T, bytes, Range(program_header.p_offset, end.v))

slice_from_section_header(T, bytes, section_header) ==
    LET end == err_checked_add(section_header.sh_offset, section_header.sh_size)
    IN  IF ~end.ok THEN end
        ELSE slice_from_bytes(T, bytes, Range(section_header.sh_offset, end.v))

\* String::from_utf8_lossy on bytes that are ASCII or 0xFF: a byte that is no
\* ASCII character becomes U+FFFD
from_utf8_lossy(string_bytes) ==
    [i \in DOMAIN string_bytes |->
        IF string_bytes[i] < 128 THEN string_bytes[i] ELSE 65533]

\* Iterator::position(|byte| *byte == 0x00): 0-based, -1 for None
RECURSIVE PositionOfZero(_, _)
PositionOfZero(string_bytes, i) ==
    IF i > Len(string_bytes) THEN -1
    ELSE IF string_bytes[i] = 0 THEN i - 1
    ELSE PositionOfZero(string_bytes, i + 1)

\* get_string_in_section that returns the whole window when it holds no zero
get_string_in_section_unterminated(bytes, section_header, offset_in_section, maximum_length) ==
    IF section_header.sh_type /= SHT_STRTAB
    THEN Err(E("InvalidSectionHeader"))
    ELSE
    LET offset_in_file == err_checked_add(section_header.sh_offset, offset_in_section)
    IN  IF ~offset_in_file.ok THEN offset_in_file
        ELSE
        LET section_end == err_checked_add(section_header.sh_offset, section_header.sh_size)
        IN  IF ~section_end.ok THEN section_end
            ELSE
            LET window_end == err_checked_add(offset_in_file.v, maximum_length)
            IN  IF ~window_end.ok THEN window_end
                ELSE
                LET string_range == Range(offset_in_file.v, Min(section_end.v, window_end.v))
                IN  IF ~SliceGet(bytes, string_range)
                    THEN Err(E("OutOfBounds"))
                    ELSE
                    LET unterminated_string_bytes == BytesIn(bytes, string_range)
                        string_length == PositionOfZero(unterminated_string_bytes, 1)
                    IN  IF string_length < 0
                        THEN Ok([start |-> string_range.start,
                                 bytes |-> unterminated_string_bytes])
                        ELSE Ok([start |-> string_range.start,
                                 bytes |-> SubSeq(unterminated_string_bytes, 1, string_length)])

\* get_string_in_section that reads a section of any type as a string table
get_string_in_section_untyped(bytes, section_header, offset_in_section, maximum_length) ==
    LET offset_in_file == err_checked_add(section_header.sh_offset, offset_in_section)
    IN  IF ~offset_in_file.ok THEN offset_in_file
        ELSE
        LET section_end == err_checked_add(section_header.sh_offset, section_header.sh_size)
        IN  IF ~section_end.ok THEN section_end
            ELSE
            LET window_end == err_checked_add(offset_in_file.v, maximum_length)
            IN  IF ~window_end.ok THEN window_end
                ELSE
                LET string_range == Range(offset_in_file.v, Min(section_end.v, window_end.v))
                IN  IF ~SliceGet(bytes, string_range)
                    THEN Err(E("OutOfBounds"))
                    ELSE
                    LET unterminated_string_bytes == BytesIn(bytes, string_range)
                        string_length == PositionOfZero(unterminated_string_bytes, 1)
                    IN  IF string_length < 0
                        THEN Err([kind |-> "StringTooLong",
                                  text |-> from_utf8_lossy(unterminated_string_bytes),
                                  max |-> maximum_length])
                        ELSE Ok([start |-> string_range.start,
                                 bytes |-> SubSeq(unterminated_string_bytes, 1, string_length)])

get_string_in_section(bytes, section_header, offset_in_section, maximum_length) ==
    IF section_header.sh_type /= SHT_STRTAB
    THEN Err(E("InvalidSectionHeader"))
    ELSE
    LET offset_in_file == err_checked_add(section_header.sh_offset, offset_in_section)
    IN  IF ~offset_in_file.ok THEN offset_in_file
        ELSE
        LET section_end == err_checked_add(section_header.sh_offset, section_header.sh_size)
        IN  IF ~section_end.ok THEN section_end
            ELSE
            LET window_end == err_checked_add(offset_in_file.v, maximum_length)
            IN  IF ~window_end.ok THEN window_end
                ELSE
                LET string_range == Range(offset_in_file.v, Min(section_end.v, window_end.v))
                IN  IF ~SliceGet(bytes, string_range)
                    THEN Err(E("OutOfBounds"))
                    ELSE
                    LET unterminated_string_bytes == BytesIn(bytes, string_range)
                        string_length == PositionOfZero(unterminated_string_bytes, 1)
                    IN  IF string_length < 0
                        THEN Err([kind |-> "StringTooLong",
                                  text |-> from_utf8_lossy(unterminated_string_bytes),
                                  max |-> maximum_length])
                        ELSE Ok([start |-> string_range.start,
                                 bytes |-> SubSeq(unterminated_string_bytes, 1, string_length)])

-----------------------------------------------------------------------------
(* Elf64::parse and its steps *)

parse_file_header(bytes) ==
    LET file_header_range == Range(0, size_of.Elf64Ehdr)
    IN  IF ~SliceGet(bytes, file_header_range)
        THEN Err(E("OutOfBounds"))
        ELSE IF bytes.addr % align_of.Elf64Ehdr /= 0
        THEN Err(E("InvalidAlignment"))
        ELSE Ok([range |-> file_header_range, file_header |-> bytes.eh])

\* the condition without the comparison of e_version
HeaderFieldsInvalid_one_version(file_header) ==
    \/ file_header.ei_mag /= ELFMAG
    \/ file_header.ei_class /= ELFCLASS64
    \/ file_header.ei_data /= ELFDATA2LSB
    \/ file_header.ei_version /= EV_CURRENT
    \/ file_header.e_ehsize /= size_of.Elf64Ehdr
    \/ file_header.e_phentsize /= size_of.Elf64Phdr
    \/ file_header.e_shentsize /= size_of.Elf64Shdr
    \/ file_header.e_shstrndx >= file_header.e_shnum

\* the condition of the `if` of parse that returns InvalidFileHeader
HeaderFieldsInvalid(file_header) ==
    \/ file_header.ei_mag /= ELFMAG
    \/ file_header.ei_class /= ELFCLASS64
    \/ file_header.ei_data /= ELFDATA2LSB
    \/ file_header.ei_version /= EV_CURRENT
    \/ file_header.e_version /= EV_CURRENT
    \/ file_header.e_ehsize /= size_of.Elf64Ehdr
    \/ file_header.e_phentsize /= size_of.Elf64Phdr
    \/ file_header.e_shentsize /= size_of.Elf64Shdr
    \/ file_header.e_shstrndx >= file_header.e_shnum

\* the range start..size*count+start of a header table, with checked arithmetic
TableRange(start, size, count) ==
    LET product == err_checked_mul(size, count)
    IN  IF ~product.ok THEN product
        ELSE LET end == err_checked_add(product.v, start)
             IN  IF ~end.ok THEN end ELSE Ok(Range(start, end.v))

\* parse_program_header_table without the overlap check
parse_program_header_table_overlapping(bytes, file_header_range, file_header) ==
    LET program_header_table_range ==
            TableRange(file_header.e_phoff, size_of.Elf64Phdr, file_header.e_phnum)
    IN  IF ~program_header_table_range.ok THEN program_header_table_range
        ELSE
        LET program_header_table ==
                slice_from_bytes("Elf64Phdr", bytes, program_header_table_range.v)
        IN  IF ~program_header_table.ok THEN program_header_table
            ELSE Ok([range |-> program_header_table_range.v,
                     table |-> program_header_table.v])

parse_program_header_table(bytes, file_header_range, file_header) ==
    LET program_header_table_range ==
            TableRange(file_header.e_phoff, size_of.Elf64Phdr, file_header.e_phnum)
    IN  IF ~program_header_table_range.ok THEN program_header_table_range
        ELSE IF ~check_that_there_is_no_overlap(file_header_range,
                                                program_header_table_range.v).ok
        THEN Err(E("Overlap"))
        ELSE
        LET program_header_table ==
                slice_from_bytes("Elf64Phdr", bytes, program_header_table_range.v)
        IN  IF ~program_header_table.ok THEN program_header_table
            ELSE Ok([range |-> program_header_table_range.v,
                     table |-> program_header_table.v])

\* parse_section_header_table that takes the table without the bounds check
parse_section_header_table_unbounded(bytes, file_header_range, file_header, program_header_table_range) ==
    LET section_header_table_range ==
            TableRange(file_header.e_shoff, size_of.Elf64Shdr, file_header.e_shnum)
    IN  IF ~section_header_table_range.ok THEN section_header_table_range
        ELSE IF ~check_that_there_is_no_overlap(file_header_range,
                                                section_header_table_range.v).ok
        THEN Err(E("Overlap"))
        ELSE IF ~check_that_there_is_no_overlap(program_header_table_range,
                                                section_header_table_range.v).ok
        THEN Err(E("Overlap"))
        ELSE
        LET section_header_table ==
                slice_from_bytes_unbounded("Elf64Shdr", bytes, section_header_table_range.v)
        IN  IF ~section_header_table.ok THEN section_header_table
            ELSE Ok([range |-> section_header_table_range.v,
                     table |-> section_header_table.v])

parse_section_header_table(bytes, file_header_range, file_header, program_header_table_range) ==
    LET section_header_table_range ==
            TableRange(file_header.e_shoff, size_of.Elf64Shdr, file_header.e_shnum)
    IN  IF ~section_header_table_range.ok THEN section_header_table_range
        ELSE IF ~check_that_there_is_no_overlap(file_header_range,
                                                section_header_table_range.v).ok
        THEN Err(E("Overlap"))
        ELSE IF ~check_that_there_is_no_overlap(program_header_table_range,
                                                section_header_table_range.v).ok
        THEN Err(E("Overlap"))
        ELSE
        LET section_header_table ==
                slice_from_bytes("Elf64Shdr", bytes, section_header_table_range.v)
        IN  IF ~section_header_table.ok THEN section_header_table
            ELSE Ok([range |-> section_header_table_range.v,
                     table |-> section_header_table.v])

\* section_header_table.first().filter(|h| h.sh_type == SHT_NULL).ok_or(..)
SectionZeroCheck(bytes, section_header_table) ==
    IF section_header_table.len >= 1
       /\ ShdrOf(bytes, section_header_table, 1).sh_type = SHT_NULL
    THEN Ok(TRUE)
    ELSE Err(E("InvalidSectionHeader"))

\* ProgramHeaderCheck without the comparison of p_vaddr with the previous one
ProgramHeaderCheck_unordered(bytes, program_header, vaddr) ==
    IF program_header.p_type /= PT_LOAD
    THEN Ok(vaddr)
    ELSE
    LET end == err_checked_add(program_header.p_offset, program_header.p_filesz)
    IN  IF ~end.ok THEN end
        ELSE IF end.v > bytes.len
        THEN Err(E("OutOfBounds"))
        ELSE Ok(program_header.p_vaddr)

\* one program header of the `for program_header in program_header_table` loop
\* of parse: Ok(the new vaddr) or the error returned
ProgramHeaderCheck(bytes, program_header, vaddr) ==
    IF program_header.p_type /= PT_LOAD
    THEN Ok(vaddr)
    ELSE IF program_header.p_vaddr < vaddr
    THEN Err(E("InvalidProgramHeader"))
    ELSE
    LET end == err_checked_add(program_header.p_offset, program_header.p_filesz)
    IN  IF ~end.ok THEN end
        ELSE IF end.v > bytes.len
        THEN Err(E("OutOfBounds"))
        ELSE Ok(program_header.p_vaddr)

RECURSIVE ProgramHeaderSweep(_, _, _, _)
ProgramHeaderSweep(bytes, program_header_table, i, vaddr) ==
    IF i > program_header_table.len THEN Ok(vaddr)
    ELSE LET step == ProgramHeaderCheck(bytes, PhdrOf(bytes, program_header_table, i), vaddr)
         IN  IF ~step.ok THEN step
             ELSE ProgramHeaderSweep(bytes, program_header_table, i + 1, step.v)

\* SectionHeaderCheck without the comparison of the start with the previous end
SectionHeaderCheck_unordered(bytes, section_header, file_header_range, program_header_table_range, section_header_table_range, offset) ==
    IF section_header.sh_type = SHT_NOBITS
    THEN Ok(offset)
    ELSE
    LET end == err_checked_add(section_header.sh_offset, section_header.sh_size)
    IN  IF ~end.ok THEN end
        ELSE
        LET section_range == Range(section_header.sh_offset, end.v)
        IN  IF ~check_that_there_is_no_overlap(section_range, file_header_range).ok
            THEN Err(E("Overlap"))
            ELSE IF ~check_that_there_is_no_overlap(section_range,
                                                    program_header_table_range).ok
            THEN Err(E("Overlap"))
            ELSE IF ~check_that_there_is_no_overlap(section_range,
                                                    section_header_table_range).ok
            THEN Err(E("Overlap"))
            ELSE IF section_range.end > bytes.len
            THEN Err(E("OutOfBounds"))
            ELSE Ok(section_range.end)

\* one section header of the `for section_header in section_header_table.iter()`
\* loop of parse: Ok(the new offset) or the error returned
SectionHeaderCheck(bytes, section_header, file_header_range, program_header_table_range, section_header_table_range, offset) ==
    IF section_header.sh_type = SHT_NOBITS
    THEN Ok(offset)
    ELSE
    LET end == err_checked_add(section_header.sh_offset, section_header.sh_size)
    IN  IF ~end.ok THEN end
        ELSE
        LET section_range == Range(section_header.sh_offset, end.v)
        IN  IF ~check_that_there_is_no_overlap(section_range, file_header_range).ok
            THEN Err(E("Overlap"))
            ELSE IF ~check_that_there_is_no_overlap(section_range,
                                                    program_header_table_range).ok
            THEN Err(E("Overlap"))
            ELSE IF ~check_that_there_is_no_overlap(section_range,
                                                    section_header_table_range).ok
            THEN Err(E("Overlap"))
            ELSE IF section_range.start < offset
            THEN Err(E("SectionNotInOrder"))
            ELSE IF section_range.end > bytes.len
            THEN Err(E("OutOfBounds"))
            ELSE Ok(section_range.end)

RECURSIVE SectionHeaderSweep(_, _, _, _, _, _, _)
SectionHeaderSweep(bytes, section_header_table, file_header_range, program_header_table_range, section_header_table_range, i, offset) ==
    IF i > section_header_table.len THEN Ok(offset)
    ELSE LET step == SectionHeaderCheck(bytes, ShdrOf(bytes, section_header_table, i),
                                        file_header_range, program_header_table_range,
                                        section_header_table_range, offset)
         IN  IF ~step.ok THEN step
             ELSE SectionHeaderSweep(bytes, section_header_table, file_header_range,
                                     program_header_table_range,
                                     section_header_table_range, i + 1, step.v)

\* (e_shstrndx != SHN_UNDEF).then(|| section_header_table.get(e_shstrndx)...);
\* a reference to a section header is its 1-based place in the table
SectionNamesSectionHeader(file_header, section_header_table) ==
    IF file_header.e_shstrndx /= SHN_UNDEF
    THEN IF file_header.e_shstrndx < section_header_table.len
         THEN Ok(Some(file_header.e_shstrndx + 1))
         ELSE Err(E("OutOfBounds"))
    ELSE Ok(None)

\* ByName that takes the last section of a name instead of refusing a second
ByName_last(field, section_header_index) == Ok(Some(section_header_index))

\* the arm of section_header_by_name! for one field: Err when the field is
\* already set, else the field set to this section header
ByName(field, section_header_index) ==
    IF field.some THEN Err(E("InvalidSectionHeader")) ELSE Ok(Some(section_header_index))

\* one section header of the loop of parse_sections
NamedSectionStep(bytes, parser, i) ==
    LET section_header == ShdrOf(bytes, parser.section_header_table, i)
        section_name ==
            get_string_in_section(
                bytes,
                ShdrOf(bytes, parser.section_header_table, parser.section_names_section_header.v),
                section_header.sh_name,
                SECTION_NAME_LENGTH_MAXIMUM)
    IN  IF ~section_name.ok THEN section_name
        ELSE IF section_name.v.bytes = NAME_SYMTAB
        THEN LET f == ByName(parser.symbol_section_header, i)
             IN  IF ~f.ok THEN f
                 ELSE Ok([parser EXCEPT !.symbol_section_header = f.v])
        ELSE IF section_name.v.bytes = NAME_STRTAB
        THEN LET f == ByName(parser.symbol_names_section_header, i)
             IN  IF ~f.ok THEN f
                 ELSE Ok([parser EXCEPT !.symbol_names_section_header = f.v])
        ELSE IF section_name.v.bytes = NAME_DYNSTR
        THEN LET f == ByName(parser.dynamic_symbol_names_section_header, i)
             IN  IF ~f.ok THEN f
                 ELSE Ok([parser EXCEPT !.dynamic_symbol_names_section_header = f.v])
        ELSE Ok(parser)

RECURSIVE NamedSectionLoop(_, _, _)
NamedSectionLoop(bytes, parser, i) ==
    IF i > parser.section_header_table.len THEN Ok(parser)
    ELSE LET step == NamedSectionStep(bytes, parser, i)
         IN  IF ~step.ok THEN step ELSE NamedSectionLoop(bytes, step.v, i + 1)

\* parse_sections without the check that a section name table exists
parse_sections_unnamed(bytes, parser) ==
    IF ~parser.section_names_section_header.some
    THEN Ok(parser)
    ELSE NamedSectionLoop(bytes, parser, 1)

parse_sections(bytes, parser) ==
    IF ~parser.section_names_section_header.some
    THEN Err(E("NoSectionNameStringTable"))
    ELSE NamedSectionLoop(bytes, parser, 1)

\* Iterator::find over a header table: the 1-based place of the first record
\* the closure accepts, 0 when there is none
RECURSIVE FindPhdrOfType(_, _, _, _)
FindPhdrOfType(bytes, table, i, p_type) ==
    IF i > table.len THEN 0
    ELSE IF PhdrOf(bytes, table, i).p_type = p_type THEN i
    ELSE FindPhdrOfType(bytes, table, i + 1, p_type)

RECURSIVE FindShdrOfType(_, _, _, _)
FindShdrOfType(bytes, table, i, sh_type) ==
    IF i > table.len THEN 0
    ELSE IF ShdrOf(bytes, table, i).sh_type = sh_type THEN i
    ELSE FindShdrOfType(bytes, table, i + 1, sh_type)

RECURSIVE FindShdrWithAddr(_, _, _, _)
FindShdrWithAddr(bytes, table, i, vaddr) ==
    IF i > table.len THEN 0
    ELSE IF ShdrOf(bytes, table, i).sh_addr = vaddr THEN i
    ELSE FindShdrWithAddr(bytes, table, i + 1, vaddr)

get_symbol_table_of_section(bytes, section_header) ==
    IF section_header.sh_type /= SHT_SYMTAB /\ section_header.sh_type /= SHT_DYNSYM
    THEN Err(E("InvalidSectionHeader"))
    ELSE slice_from_section_header("Elf64Sym", bytes, section_header)

\* Ok(the 1-based place of the program header, 0 for None) or the overflow error
RECURSIVE program_header_for_vaddr(_, _, _, _)
program_header_for_vaddr(bytes, parser, vaddr, i) ==
    IF i > parser.program_header_table.len THEN Ok(0)
    ELSE
    LET program_header == PhdrOf(bytes, parser.program_header_table, i)
        end == err_checked_add(program_header.p_vaddr, program_header.p_memsz)
    IN  IF ~end.ok THEN end
        ELSE IF program_header.p_vaddr <= vaddr /\ vaddr < end.v
        THEN Ok(i)
        ELSE program_header_for_vaddr(bytes, parser, vaddr, i + 1)

\* the file offset parse_dynamic_relocations resolves DT_REL's vaddr to
RelocationsOffset(bytes, parser, vaddr) ==
    LET found == program_header_for_vaddr(bytes, parser, vaddr, 1)
    IN  IF ~found.ok THEN found
        ELSE IF found.v /= 0
        THEN LET program_header == PhdrOf(bytes, parser.program_header_table, found.v)
                 delta == err_checked_sub(vaddr, program_header.p_vaddr)
             IN  IF ~delta.ok THEN delta
                 ELSE err_checked_add(delta.v, program_header.p_offset)
        ELSE LET place == FindShdrWithAddr(bytes, parser.section_header_table, 1, vaddr)
             IN  IF place = 0
                 THEN Err(E("InvalidDynamicSectionTable"))
                 ELSE Ok(ShdrOf(bytes, parser.section_header_table, place).sh_offset)

parse_dynamic_relocations(bytes, parser) ==
    LET vaddr == parser.dynamic_table[DT_REL]
    IN  IF vaddr = 0 THEN Ok(None)
        ELSE IF parser.dynamic_table[DT_RELENT] /= size_of.Elf64Rel
        THEN Err(E("InvalidDynamicSectionTable"))
        ELSE
        LET size == parser.dynamic_table[DT_RELSZ]
        IN  IF size = 0
            THEN Err(E("InvalidDynamicSectionTable"))
            ELSE
            LET offset == RelocationsOffset(bytes, parser, vaddr)
            IN  IF ~offset.ok THEN offset
                ELSE
                LET end == err_checked_add(offset.v, size)
                IN  IF ~end.ok THEN end
                    ELSE
                    LET table == slice_from_bytes("Elf64Rel", bytes, Range(offset.v, end.v))
                    IN  IF ~table.ok
                        THEN Err(E("InvalidDynamicSectionTable"))
                        ELSE Ok(Some(table.v))

\* parse_dynamic_symbol_table that takes a DT_SYMTAB no section header has as
\* the address of as no dynamic symbol table
parse_dynamic_symbol_table_lenient(bytes, parser) ==
    LET vaddr == parser.dynamic_table[DT_SYMTAB]
        place == FindShdrWithAddr(bytes, parser.section_header_table, 1, vaddr)
    IN  IF vaddr = 0 \/ place = 0 THEN Ok(None)
        ELSE
        LET table == get_symbol_table_of_section(
                         bytes, ShdrOf(bytes, parser.section_header_table, place))
        IN  IF ~table.ok THEN table ELSE Ok(Some(table.v))

parse_dynamic_symbol_table(bytes, parser) ==
    LET vaddr == parser.dynamic_table[DT_SYMTAB]
    IN  IF vaddr = 0 THEN Ok(None)
        ELSE
        LET place == FindShdrWithAddr(bytes, parser.section_header_table, 1, vaddr)
        IN  IF place = 0
            THEN Err(E("InvalidDynamicSectionTable"))
            ELSE
            LET table == get_symbol_table_of_section(
                             bytes, ShdrOf(bytes, parser.section_header_table, place))
            IN  IF ~table.ok THEN table ELSE Ok(Some(table.v))

\* AbsorbDynamic that skips a DT_NULL entry instead of stopping at it
RECURSIVE AbsorbDynamic_past_null(_, _, _, _)
AbsorbDynamic_past_null(bytes, dynamic_table, table, i) ==
    IF i > dynamic_table.len THEN table
    ELSE
    LET dyn_info == DynOf(bytes, dynamic_table, i)
    IN  IF dyn_info.d_tag = DT_NULL \/ dyn_info.d_tag >= DT_NUM
        THEN AbsorbDynamic_past_null(bytes, dynamic_table, table, i + 1)
        ELSE AbsorbDynamic_past_null(bytes, dynamic_table,
                                     [table EXCEPT ![dyn_info.d_tag] = dyn_info.d_val], i + 1)

\* the loop of parse_dynamic that expands the Elf64Dyn entries into
\* self.dynamic_table
RECURSIVE AbsorbDynamic(_, _, _, _)
AbsorbDynamic(bytes, dynamic_table, table, i) ==
    IF i > dynamic_table.len THEN table
    ELSE
    LET dyn_info == DynOf(bytes, dynamic_table, i)
    IN  IF dyn_info.d_tag = DT_NULL THEN table
        ELSE IF dyn_info.d_tag >= DT_NUM
        THEN AbsorbDynamic(bytes, dynamic_table, table, i + 1)
        ELSE AbsorbDynamic(bytes, dynamic_table,
                           [table EXCEPT ![dyn_info.d_tag] = dyn_info.d_val], i + 1)

\* DynamicTableSource that returns the error of a PT_DYNAMIC program header
\* that is no Elf64Dyn slice instead of going on to SHT_DYNAMIC
DynamicTableSource_strict(bytes, parser) ==
    LET ph == FindPhdrOfType(bytes, parser.program_header_table, 1, PT_DYNAMIC)
        sh == FindShdrOfType(bytes, parser.section_header_table, 1, SHT_DYNAMIC)
    IN  IF ph /= 0
        THEN LET r == slice_from_program_header(
                          "Elf64Dyn", bytes,
                          PhdrOf(bytes, parser.program_header_table, ph))
             IN  IF r.ok THEN Ok(Some(r.v)) ELSE r
        ELSE IF sh = 0 THEN Ok(None)
        ELSE LET r == slice_from_section_header(
                          "Elf64Dyn", bytes,
                          ShdrOf(bytes, parser.section_header_table, sh))
             IN  IF r.ok THEN Ok(Some(r.v))
                 ELSE Err(E("InvalidDynamicSectionTable"))

\* the Elf64Dyn slice parse_dynamic chooses: Ok(Some(slice)), Ok(None) for a
\* static file, or the error of the SHT_DYNAMIC fallback
DynamicTableSource(bytes, parser) ==
    LET ph == FindPhdrOfType(bytes, parser.program_header_table, 1, PT_DYNAMIC)
        from_ph == IF ph = 0 THEN None
                   ELSE LET r == slice_from_program_header(
                                     "Elf64Dyn", bytes,
                                     PhdrOf(bytes, parser.program_header_table, ph))
                        IN  IF r.ok THEN Some(r.v) ELSE None
        sh == FindShdrOfType(bytes, parser.section_header_table, 1, SHT_DYNAMIC)
    IN  IF from_ph.some THEN Ok(from_ph)
        ELSE IF sh = 0 THEN Ok(None)
        ELSE LET r == slice_from_section_header(
                          "Elf64Dyn", bytes,
                          ShdrOf(bytes, parser.section_header_table, sh))
             IN  IF r.ok THEN Ok(Some(r.v))
                 ELSE Err(E("InvalidDynamicSectionTable"))

parse_dynamic(bytes, parser) ==
    LET dynamic_table == DynamicTableSource(bytes, parser)
    IN  IF ~dynamic_table.ok THEN dynamic_table
        ELSE IF ~dynamic_table.v.some THEN Ok(parser)
        ELSE
        LET p1 == [parser EXCEPT !.dynamic_table =
                       AbsorbDynamic(bytes, dynamic_table.v.v, parser.dynamic_table, 1)]
            relocations == parse_dynamic_relocations(bytes, p1)
        IN  IF ~relocations.ok THEN relocations
            ELSE
            LET p2 == [p1 EXCEPT !.dynamic_relocations_table = relocations.v]
                symbols == parse_dynamic_symbol_table(bytes, p2)
            IN  IF ~symbols.ok THEN symbols
                ELSE Ok([p2 EXCEPT !.dynamic_symbol_table = symbols.v])

\* parse_headers that validates the fields of the file header after it has
\* read the program header table
parse_headers_tables_first(bytes) ==
    LET fh == parse_file_header(bytes)
    IN  IF ~fh.ok THEN fh
        ELSE
        LET file_header == fh.v.file_header
            pht == parse_program_header_table(bytes, fh.v.range, file_header)
        IN  IF ~pht.ok THEN pht
            ELSE IF HeaderFieldsInvalid(fh.v.file_header)
            THEN Err(E("InvalidFileHeader"))
            ELSE
            LET sht == parse_section_header_table(bytes, fh.v.range, file_header, pht.v.range)
            IN  IF ~sht.ok THEN sht
                ELSE
                LET zero == SectionZeroCheck(bytes, sht.v.table)
                    segments == ProgramHeaderSweep(bytes, pht.v.table, 1, 0)
                    sections == SectionHeaderSweep(bytes, sht.v.table, fh.v.range,
                                                   pht.v.range, sht.v.range, 1, 0)
                    names == SectionNamesSectionHeader(file_header, sht.v.table)
                IN  IF ~zero.ok THEN zero
                    ELSE IF ~segments.ok THEN segments
                    ELSE IF ~sections.ok THEN sections
                    ELSE IF ~names.ok THEN names
                    ELSE Ok([file_header |-> file_header,
                             program_header_table |-> pht.v.table,
                             section_header_table |-> sht.v.table,
                             section_names_section_header |-> names.v,
                             symbol_section_header |-> None,
                             symbol_names_section_header |-> None,
                             dynamic_table |-> [t \in 0..(DT_NUM - 1) |-> 0],
                             dynamic_relocations_table |-> None,
                             dynamic_symbol_table |-> None,
                             dynamic_symbol_names_section_header |-> None])

\* parse up to the construction of `parser`: Ok(parser) or Err(the error)
parse_headers(bytes) ==
    LET fh == parse_file_header(bytes)
    IN  IF ~fh.ok THEN fh
        ELSE IF HeaderFieldsInvalid(fh.v.file_header)
        THEN Err(E("InvalidFileHeader"))
        ELSE
        LET file_header == fh.v.file_header
            pht == parse_program_header_table(bytes, fh.v.range, file_header)
        IN  IF ~pht.ok THEN pht
            ELSE
            LET sht == parse_section_header_table(bytes, fh.v.range, file_header, pht.v.range)
            IN  IF ~sht.ok THEN sht
                ELSE
                LET zero == SectionZeroCheck(bytes, sht.v.table)
                    segments == ProgramHeaderSweep(bytes, pht.v.table, 1, 0)
                    sections == SectionHeaderSweep(bytes, sht.v.table, fh.v.range,
                                                   pht.v.range, sht.v.range, 1, 0)
                    names == SectionNamesSectionHeader(file_header, sht.v.table)
                IN  IF ~zero.ok THEN zero
                    ELSE IF ~segments.ok THEN segments
                    ELSE IF ~sections.ok THEN sections
                    ELSE IF ~names.ok THEN names
                    ELSE Ok([file_header |-> file_header,
                             program_header_table |-> pht.v.table,
                             section_header_table |-> sht.v.table,
                             section_names_section_header |-> names.v,
                             symbol_section_header |-> None,
                             symbol_names_section_header |-> None,
                             dynamic_table |-> [t \in 0..(DT_NUM - 1) |-> 0],
                             dynamic_relocations_table |-> None,
                             dynamic_symbol_table |-> None,
                             dynamic_symbol_names_section_header |-> None])

\* Elf64::parse: Ok(the view) or Err(the error)
parse(bytes) ==
    LET parser == parse_headers(bytes)
    IN  IF ~parser.ok THEN parser
        ELSE LET named == parse_sections(bytes, parser.v)
             IN  IF ~named.ok THEN named
                 ELSE parse_dynamic(bytes, named.v)

\* a step of Elf64::parse with what it returns
Step(name, result) == [step |-> name, result |-> result]

\* the k-th step of Elf64::parse in the order it runs them; done[i].result is
\* what the i-th step returned, and none of them failed
RunStep(k, bytes, done) ==
    CASE k = 1 -> Step("file_header", parse_file_header(bytes))
      [] k = 2 ->
             Step("header_fields",
                  IF HeaderFieldsInvalid(done[1].result.v.file_header)
                  THEN Err(E("InvalidFileHeader")) ELSE Ok(TRUE))
      [] k = 3 ->
             Step("program_header_table",
                  parse_program_header_table(bytes, done[1].result.v.range,
                                             done[1].result.v.file_header))
      [] k = 4 ->
             Step("section_header_table",
                  parse_section_header_table(bytes, done[1].result.v.range,
                                             done[1].result.v.file_header,
                                             done[3].result.v.range))
      [] k = 5 -> Step("section_zero", SectionZeroCheck(bytes, done[4].result.v.table))
      [] k = 6 ->
             Step("program_sweep", ProgramHeaderSweep(bytes, done[3].result.v.table, 1, 0))
      [] k = 7 ->
             Step("section_sweep",
                  SectionHeaderSweep(bytes, done[4].result.v.table,
                                     done[1].result.v.range, done[3].result.v.range,
                                     done[4].result.v.range, 1, 0))
      [] k = 8 ->
             Step("section_names",
                  SectionNamesSectionHeader(done[1].result.v.file_header,
                                            done[4].result.v.table))
      [] k = 9 -> Step("named_sections", parse_sections(bytes, parse_headers(bytes).v))
      [] k = 10 ->
             LET Absorbed(named, source) ==
                     IF ~source.ok THEN source
                     ELSE IF ~source.v.some THEN Ok([table |-> None, view |-> named])
                     ELSE Ok([table |-> source.v,
                              view |-> [named EXCEPT !.dynamic_table =
                                           AbsorbDynamic(bytes, source.v.v,
                                                         named.dynamic_table, 1)]])
             IN  Step("dynamic_table",
                      Absorbed(done[9].result.v,
                               DynamicTableSource(bytes, done[9].result.v)))
      [] k = 11 ->
             Step("dynamic_relocations",
                  parse_dynamic_relocations(bytes, done[10].result.v.view))
      [] k = 12 ->
             Step("dynamic_symbols",
                  parse_dynamic_symbol_table(
                      bytes,
                      [done[10].result.v.view EXCEPT
                          !.dynamic_relocations_table = done[11].result.v]))

\* the steps run after `done`: none when the last of them failed, when there
\* is no dynamic table, or when all were run
RECURSIVE StepsFrom(_, _)
StepsFrom(bytes, done) ==
    IF \/ Len(done) = 12
       \/ Len(done) > 0 /\ ~done[Len(done)].result.ok
       \/ Len(done) = 10 /\ ~done[10].result.v.table.some
    THEN done
    ELSE StepsFrom(bytes, Append(done, RunStep(Len(done) + 1, bytes, done)))

\* the steps of Elf64::parse in the order it runs them, each with what it
\* returns, up to the first that fails
Steps(bytes) == StepsFrom(bytes, <<>>)

-----------------------------------------------------------------------------
(* The accessors of a parsed view *)

section_name(bytes, parser, sh_name) ==
    IF ~parser.section_names_section_header.some
    THEN Err(E("NoSectionNameStringTable"))
    ELSE get_string_in_section(
             bytes,
             ShdrOf(bytes, parser.section_header_table, parser.section_names_section_header.v),
             sh_name, SECTION_NAME_LENGTH_MAXIMUM)

symbol_name(bytes, parser, st_name) ==
    IF ~parser.symbol_names_section_header.some
    THEN Err(E("NoStringTable"))
    ELSE get_string_in_section(
             bytes,
             ShdrOf(bytes, parser.section_header_table, parser.symbol_names_section_header.v),
             st_name, SYMBOL_NAME_LENGTH_MAXIMUM)

dynamic_symbol_name(bytes, parser, st_name) ==
    IF ~parser.dynamic_symbol_names_section_header.some
    THEN Err(E("NoDynamicStringTable"))
    ELSE get_string_in_section(
             bytes,
             ShdrOf(bytes, parser.section_header_table,
                    parser.dynamic_symbol_names_section_header.v),
             st_name, SYMBOL_NAME_LENGTH_MAXIMUM)

\* symbol_table that reads the section named .symtab whatever its type
symbol_table_untyped(bytes, parser) ==
    IF ~parser.symbol_section_header.some
    THEN Ok(None)
    ELSE LET table == slice_from_section_header(
                          "Elf64Sym", bytes,
                          ShdrOf(bytes, parser.section_header_table,
                                 parser.symbol_section_header.v))
         IN  IF ~table.ok THEN table ELSE Ok(Some(table.v))

\* Result<Option<&[Elf64Sym]>>
symbol_table(bytes, parser) ==
    IF ~parser.symbol_section_header.some
    THEN Ok(None)
    ELSE LET table == get_symbol_table_of_section(
                          bytes,
                          ShdrOf(bytes, parser.section_header_table,
                                 parser.symbol_section_header.v))
         IN  IF ~table.ok THEN table ELSE Ok(Some(table.v))

-----------------------------------------------------------------------------
(* The buffers parse is given *)

Ehdr(e_phoff, e_phnum, e_shoff, e_shnum, e_shstrndx) ==
    [ei_mag |-> ELFMAG, ei_class |-> ELFCLASS64, ei_data |-> ELFDATA2LSB,
     ei_version |-> EV_CURRENT, e_version |-> EV_CURRENT,
     e_phoff |-> e_phoff, e_shoff |-> e_shoff,
     e_ehsize |-> size_of.Elf64Ehdr, e_phentsize |-> size_of.Elf64Phdr,
     e_phnum |-> e_phnum, e_shentsize |-> size_of.Elf64Shdr,
     e_shnum |-> e_shnum, e_shstrndx |-> e_shstrndx]

Phdr(p_type, p_offset, p_vaddr, p_filesz, p_memsz) ==
    [p_type |-> p_type, p_offset |-> p_offset, p_vaddr |-> p_vaddr,
     p_filesz |-> p_filesz, p_memsz |-> p_memsz]

Shdr(sh_name, sh_type, sh_addr, sh_offset, sh_size) ==
    [sh_name |-> sh_name, sh_type |-> sh_type, sh_addr |-> sh_addr,
     sh_offset |-> sh_offset, sh_size |-> sh_size]

Dyn(d_tag, d_val) == [d_tag |-> d_tag, d_val |-> d_val]

Repeat(byte, n) == [i \in 1..n |-> byte]

\* The string table of the images.  Offsets: 0 "", 1 ".symtab", 9 ".strtab",
\* 17 ".dynstr", 25 ".s", 28 sixteen 'a' (29: fifteen), 45 sixty-four 'b'
\* (46: sixty-three), 110 two 0xFF bytes up to the end of the table.
StringTable ==
    <<0>> \o NAME_SYMTAB \o <<0>> \o NAME_STRTAB \o <<0>> \o NAME_DYNSTR \o <<0>>
        \o <<46, 115, 0>> \o Repeat(97, 16) \o <<0>> \o Repeat(98, 64) \o <<0>>
        \o <<255, 255>>

\* the offsets into the string table used as names
NameOffsets == {0, 1, 9, 17, 25, 28, 29, 45, 46, 110, 112, 113}

\* the image of the spec's scenario 1: a file header and one SHT_NULL section
MinimalImage ==
    [len |-> 128, addr |-> 0,
     eh |-> Ehdr(0, 0, 64, 1, 0),
     ph_at |-> 0, ph |-> <<>>,
     sh_at |-> 64, sh |-> <<ZeroShdr>>,
     str_at |-> {}, str |-> <<>>,
     dyn_at |-> 0, dyn |-> <<>>]

\* a null section and a section-name string table
SmallImage ==
    [len |-> 304, addr |-> 0,
     eh |-> Ehdr(0, 0, 176, 2, 1),
     ph_at |-> 0, ph |-> <<>>,
     sh_at |-> 176,
     sh |-> <<ZeroShdr, Shdr(25, SHT_STRTAB, 0, 64, 112)>>,
     str_at |-> {64}, str |-> StringTable,
     dyn_at |-> 0, dyn |-> <<>>]

\* a static image: one segment, .text, .symtab, .strtab, .shstrtab
StaticImage ==
    [len |-> 728, addr |-> 0,
     eh |-> Ehdr(64, 1, 408, 5, 4),
     ph_at |-> 64, ph |-> <<Phdr(PT_LOAD, 120, 4216, 16, 16)>>,
     sh_at |-> 408,
     sh |-> <<ZeroShdr,
              Shdr(25, SHT_PROGBITS, 4216, 120, 16),
              Shdr(1, SHT_SYMTAB, 0, 136, 48),
              Shdr(9, SHT_STRTAB, 0, 184, 112),
              Shdr(25, SHT_STRTAB, 0, 296, 112)>>,
     str_at |-> {184, 296}, str |-> StringTable,
     dyn_at |-> 0, dyn |-> <<>>]

\* a dynamic image: two segments and PT_DYNAMIC; .text, .dynamic, .dynsym,
\* .dynstr, .rel.dyn, .bss (SHT_NOBITS), .shstrtab
DynamicImage ==
    [len |-> 1136, addr |-> 0,
     eh |-> Ehdr(64, 3, 624, 8, 7),
     ph_at |-> 64,
     ph |-> <<Phdr(PT_LOAD, 232, 232, 8, 8),
              Phdr(PT_DYNAMIC, 240, 4336, 80, 80),
              Phdr(PT_LOAD, 240, 4336, 272, 272)>>,
     sh_at |-> 624,
     sh |-> <<ZeroShdr,
              Shdr(25, SHT_PROGBITS, 232, 232, 8),
              Shdr(25, SHT_DYNAMIC, 4336, 240, 80),
              Shdr(25, SHT_DYNSYM, 4416, 320, 48),
              Shdr(17, SHT_STRTAB, 4464, 368, 112),
              Shdr(25, SHT_REL, 4576, 480, 32),
              Shdr(25, SHT_NOBITS, 8192, 512, 4096),
              Shdr(25, SHT_STRTAB, 0, 512, 112)>>,
     str_at |-> {368, 512}, str |-> StringTable,
     dyn_at |-> 240,
     dyn |-> <<Dyn(DT_REL, 4576), Dyn(DT_RELSZ, 32), Dyn(DT_RELENT, 16),
               Dyn(DT_SYMTAB, 4416), Dyn(DT_NULL, 0)>>]

BaseImages == {MinimalImage, SmallImage, StaticImage, DynamicImage}

\* the parts of the buffer that hold records or string bytes
Laid(bytes) ==
    {Range(0, size_of.Elf64Ehdr),
     Range(bytes.ph_at, bytes.ph_at + Len(bytes.ph) * size_of.Elf64Phdr),
     Range(bytes.sh_at, bytes.sh_at + Len(bytes.sh) * size_of.Elf64Shdr),
     Range(bytes.dyn_at, bytes.dyn_at + Len(bytes.dyn) * size_of.Elf64Dyn)}

LaidStrings(bytes) == {Range(at, at + Len(bytes.str)) : at \in bytes.str_at}

Meets(r, s) == r.start < r.end /\ s.start < s.end /\ r.start < s.end /\ s.start < r.end

\* [start, start + size) read as records of `T` is read from the records laid
\* out from `at`, or from zero bytes, or is refused before any read
ReadsRecords(bytes, start, size, T, at, n) ==
    \/ size = 0
    \/ start + size > bytes.len
    \/ size % size_of[T] /= 0
    \/ (bytes.addr + start) % align_of[T] /= 0
    \/ /\ start >= at
       /\ (start - at) % size_of[T] = 0
       /\ start + size <= at + n * size_of[T]
    \/ \A s \in Laid(bytes) \cup LaidStrings(bytes) : ~Meets(Range(start, start + size), s)

\* the buffer's pointers lead only to what the typed memory describes: header
\* tables and dynamic tables to records of their type or to zero bytes, string
\* tables to string bytes or zero bytes
WellLaidOut(bytes) ==
    LET eh == bytes.eh
        ph_size == eh.e_phnum * size_of.Elf64Phdr
        sh_size == eh.e_shnum * size_of.Elf64Shdr
        ph_range == Range(eh.e_phoff, eh.e_phoff + ph_size)
        sh_range == Range(eh.e_shoff, eh.e_shoff + sh_size)
        header == Range(0, size_of.Elf64Ehdr)
    IN  /\ \/ eh.e_phoff + ph_size > USIZE_MAX
           \/ ~check_that_there_is_no_overlap(header, ph_range).ok
           \/ ReadsRecords(bytes, eh.e_phoff, ph_size, "Elf64Phdr",
                           bytes.ph_at, Len(bytes.ph))
        /\ \/ eh.e_shoff + sh_size > USIZE_MAX
           \/ eh.e_phoff + ph_size > USIZE_MAX
           \/ ~check_that_there_is_no_overlap(header, sh_range).ok
           \/ ~check_that_there_is_no_overlap(ph_range, sh_range).ok
           \/ ReadsRecords(bytes, eh.e_shoff, sh_size, "Elf64Shdr",
                           bytes.sh_at, Len(bytes.sh))
        /\ \A i \in DOMAIN bytes.ph :
              bytes.ph[i].p_type = PT_DYNAMIC =>
                  \/ bytes.ph[i].p_offset + bytes.ph[i].p_filesz > USIZE_MAX
                  \/ ReadsRecords(bytes, bytes.ph[i].p_offset, bytes.ph[i].p_filesz,
                                  "Elf64Dyn", bytes.dyn_at, Len(bytes.dyn))
        /\ \A i \in DOMAIN bytes.sh :
              /\ bytes.sh[i].sh_type = SHT_DYNAMIC =>
                  \/ bytes.sh[i].sh_offset + bytes.sh[i].sh_size > USIZE_MAX
                  \/ ReadsRecords(bytes, bytes.sh[i].sh_offset, bytes.sh[i].sh_size,
                                  "Elf64Dyn", bytes.dyn_at, Len(bytes.dyn))
              /\ bytes.sh[i].sh_type = SHT_STRTAB =>
                  \/ bytes.sh[i].sh_offset + bytes.sh[i].sh_size > USIZE_MAX
                  \/ \A s \in Laid(bytes) :
                        ~Meets(Range(bytes.sh[i].sh_offset,
                                     Min(bytes.sh[i].sh_offset + bytes.sh[i].sh_size,
                                         bytes.len)), s)

\* One change of a base image: a field of the buffer ("buf"), of the file header
\* ("eh"), of the idx-th program header ("ph"), section header ("sh") or
\* dynamic entry ("dyn") set to a value; "none" changes nothing.
Change(part, idx, field, val) == [part |-> part, idx |-> idx, field |-> field, val |-> val]

NoChange == Change("none", 0, "", 0)

Apply(bytes, c) ==
    CASE c.part = "none" -> bytes
      [] c.part = "buf"  -> [bytes EXCEPT ![c.field] = c.val]
      [] c.part = "eh"   -> [bytes EXCEPT !.eh[c.field] = c.val]
      [] c.part = "ph"   -> [bytes EXCEPT !.ph[c.idx][c.field] = c.val]
      [] c.part = "sh"   -> [bytes EXCEPT !.sh[c.idx][c.field] = c.val]
      [] c.part = "dyn"  -> [bytes EXCEPT !.dyn[c.idx][c.field] = c.val]

Nat0(S) == {x \in S : x >= 0 /\ x <= USIZE_MAX}

\* file offsets tried for an offset field whose value in the base image is `o`
Offsets(bytes, o) ==
    Nat0({0, 8, 60, 64, o - 8, o, o + 4, o + 8, bytes.len - 8, bytes.len, bytes.len + 8,
          USIZE_MAX - 7, USIZE_MAX}
         \cup {bytes.ph_at, bytes.sh_at, bytes.dyn_at})

\* sizes tried for a size field whose value in the base image is `z`
Sizes(bytes, z) ==
    Nat0({0, 8, 16, z - 8, z - 1, z, z + 8, bytes.len, USIZE_MAX})

Addresses == {0, 232, 4216, 4336, 4416, 4576, 8192, USIZE_MAX}

SegmentTypes == {PT_NULL, PT_LOAD, PT_DYNAMIC}

SectionTypes ==
    {SHT_NULL, SHT_PROGBITS, SHT_SYMTAB, SHT_STRTAB, SHT_DYNAMIC, SHT_NOBITS,
     SHT_REL, SHT_DYNSYM}

Tags == {DT_NULL, DT_SYMTAB, DT_REL, DT_RELSZ, DT_RELENT, DT_NUM - 1, DT_NUM, USIZE_MAX}

Counts(n) == Nat0({0, 1, n - 1, n, n + 1, 2 * n + 1})

Changes(bytes) ==
    {NoChange}
    \cup {Change("buf", 0, "len", v) :
            v \in Nat0({0, 63, 64, bytes.len - 8, bytes.len - 1, bytes.len + 1, bytes.len + 8})}
    \cup {Change("buf", 0, "addr", v) : v \in {4, 8}}
    \cup {Change("eh", 0, "ei_mag", v) : v \in {<<127, 69, 76, 71>>, <<0, 69, 76, 70>>}}
    \cup {Change("eh", 0, f, v) : f \in {"ei_class", "ei_data", "ei_version", "e_version"},
                                   v \in {0, 1, 2}}
    \cup {Change("eh", 0, f, v) : f \in {"e_ehsize", "e_phentsize", "e_shentsize"},
                                   v \in {0, 56, 64}}
    \cup {Change("eh", 0, "e_phoff", v) : v \in Offsets(bytes, bytes.eh.e_phoff)}
    \cup {Change("eh", 0, "e_shoff", v) : v \in Offsets(bytes, bytes.eh.e_shoff)}
    \cup {Change("eh", 0, "e_phnum", v) : v \in Counts(bytes.eh.e_phnum)}
    \cup {Change("eh", 0, "e_shnum", v) : v \in Counts(bytes.eh.e_shnum)}
    \cup {Change("eh", 0, "e_shstrndx", v) :
            v \in Counts(bytes.eh.e_shnum) \cup Counts(bytes.eh.e_shstrndx)}
    \cup UNION {
            {Change("ph", i, "p_type", v) : v \in SegmentTypes}
            \cup {Change("ph", i, "p_offset", v) : v \in Offsets(bytes, bytes.ph[i].p_offset)}
            \cup {Change("ph", i, "p_vaddr", v) : v \in Addresses}
            \cup {Change("ph", i, "p_filesz", v) : v \in Sizes(bytes, bytes.ph[i].p_filesz)}
            \cup {Change("ph", i, "p_memsz", v) : v \in Sizes(bytes, bytes.ph[i].p_memsz)}
            : i \in DOMAIN bytes.ph}
    \cup UNION {
            {Change("sh", i, "sh_name", v) : v \in NameOffsets}
            \cup {Change("sh", i, "sh_type", v) : v \in SectionTypes}
            \cup {Change("sh", i, "sh_addr", v) : v \in Addresses}
            \cup {Change("sh", i, "sh_offset", v) : v \in Offsets(bytes, bytes.sh[i].sh_offset)}
            \cup {Change("sh", i, "sh_size", v) : v \in Sizes(bytes, bytes.sh[i].sh_size)}
            : i \in DOMAIN bytes.sh}
    \cup UNION {
            {Change("dyn", i, "d_tag", v) : v \in Tags}
            \cup {Change("dyn", i, "d_val", v) : v \in Addresses \cup {16, 24, 32, 48}}
            : i \in DOMAIN bytes.dyn}

\* a second change, made together with the first
SecondChanges(bytes) ==
    {NoChange,
     Change("buf", 0, "len", bytes.len + 8),
     Change("eh", 0, "ei_mag", <<127, 69, 76, 71>>),
     Change("eh", 0, "e_phoff", 8)}
    \cup UNION {{Change("sh", i, "sh_size", bytes.sh[i].sh_size - 8),
                 Change("sh", i, "sh_type", SHT_PROGBITS)}
                : i \in {k \in DOMAIN bytes.sh : bytes.sh[k].sh_type = SHT_DYNAMIC}}
    \cup {Change("sh", i, "sh_size", size_of.Elf64Sym)
             : i \in {k \in DOMAIN bytes.sh : bytes.sh[k].sh_type = SHT_SYMTAB}}

\* the buffers given to parse: a base image with at most two changes
Images ==
    {b \in UNION {{Apply(Apply(base, c), d) : c \in Changes(base), d \in SecondChanges(base)}
                  : base \in BaseImages}
       : WellLaidOut(b)}

-----------------------------------------------------------------------------
(* The state machine: a buffer is given, parsed, and the view is queried *)

NotParsed == [ok |-> FALSE, err |-> E("NotParsed")]

NoQuery == [op |-> "none"]

Given == [kind |-> "given"]

Init ==
    /\ elf_bytes \in Images
    /\ parsed = NotParsed
    /\ query = NoQuery
    /\ history = Given
    /\ steps = <<>>

Parse ==
    /\ parsed = NotParsed
    /\ parsed' = parse(elf_bytes)
    /\ steps' = Steps(elf_bytes)
    /\ UNCHANGED <<elf_bytes, query, history>>

\* the accessors of a parsed view, each called with an argument of NameOffsets;
\* they are pure, so one call on a view shows all a sequence of calls can
SectionName ==
    /\ parsed.ok
    /\ query = NoQuery
    /\ \E sh_name \in NameOffsets :
          query' = [op |-> "section_name", arg |-> sh_name,
                    cap |-> SECTION_NAME_LENGTH_MAXIMUM,
                    result |-> section_name(elf_bytes, parsed.v, sh_name)]
    /\ UNCHANGED <<elf_bytes, parsed, history, steps>>

SymbolName ==
    /\ parsed.ok
    /\ query = NoQuery
    /\ \E st_name \in NameOffsets :
          query' = [op |-> "symbol_name", arg |-> st_name,
                    cap |-> SYMBOL_NAME_LENGTH_MAXIMUM,
                    result |-> symbol_name(elf_bytes, parsed.v, st_name)]
    /\ UNCHANGED <<elf_bytes, parsed, history, steps>>

DynamicSymbolName ==
    /\ parsed.ok
    /\ query = NoQuery
    /\ \E st_name \in NameOffsets :
          query' = [op |-> "dynamic_symbol_name", arg |-> st_name,
                    cap |-> SYMBOL_NAME_LENGTH_MAXIMUM,
                    result |-> dynamic_symbol_name(elf_bytes, parsed.v, st_name)]
    /\ UNCHANGED <<elf_bytes, parsed, history, steps>>

SymbolTable ==
    /\ parsed.ok
    /\ query = NoQuery
    /\ query' = [op |-> "symbol_table", result |-> symbol_table(elf_bytes, parsed.v)]
    /\ UNCHANGED <<elf_bytes, parsed, history, steps>>

\* the end offsets of the ranges the headers of a buffer name
EndPoints(bytes) ==
    {size_of.Elf64Ehdr,
     bytes.eh.e_phoff + bytes.eh.e_phnum * size_of.Elf64Phdr,
     bytes.eh.e_shoff + bytes.eh.e_shnum * size_of.Elf64Shdr}
    \cup {bytes.ph[i].p_offset + bytes.ph[i].p_filesz : i \in DOMAIN bytes.ph}
    \cup {bytes.sh[i].sh_offset + bytes.sh[i].sh_size : i \in DOMAIN bytes.sh}

\* the lengths a parsed buffer is cut to
TruncationPoints(bytes) ==
    {n \in {0, bytes.len - 1} \cup EndPoints(bytes) \cup {e - 1 : e \in EndPoints(bytes)}
       : n >= 0 /\ n < bytes.len}

\* a buffer that parsed is cut to its first n bytes, to be parsed again
Truncate ==
    /\ parsed.ok
    /\ query = NoQuery
    /\ history = Given
    /\ \E n \in TruncationPoints(elf_bytes) :
          /\ elf_bytes' = [elf_bytes EXCEPT !.len = n]
          /\ history' = [kind |-> "truncated", from |-> elf_bytes]
    /\ parsed' = NotParsed
    /\ query' = NoQuery
    /\ steps' = <<>>

\* byte k (0 the least significant) of a little-endian field
ByteOf(v, k) == (v \div (256^k)) % 256

SetByte(v, k, b) == v - ByteOf(v, k) * (256^k) + b * (256^k)

\* the bytes of the file header that parse compares with a constant: the
\* identification (magic, class, data encoding, version), e_version and the
\* three record sizes
RequiredBytes ==
    ({"ei_mag", "e_version"} \X (0..3))
    \cup ({"ei_class", "ei_data", "ei_version"} \X {0})
    \cup ({"e_ehsize", "e_phentsize", "e_shentsize"} \X {0, 1})

NewBytes == {0, 1, 2}

\* one byte of a required field of a buffer that parsed is given another
\* value, and the buffer is parsed again
ChangeByte ==
    /\ parsed.ok
    /\ query = NoQuery
    /\ history = Given
    /\ \E fk \in RequiredBytes, b \in NewBytes :
          LET f == fk[1]
              k == fk[2]
              old == IF f = "ei_mag" THEN elf_bytes.eh.ei_mag[k + 1]
                     ELSE ByteOf(elf_bytes.eh[f], k)
              new == IF f = "ei_mag" THEN [elf_bytes.eh.ei_mag EXCEPT ![k + 1] = b]
                     ELSE SetByte(elf_bytes.eh[f], k, b)
          IN  /\ b /= old
              /\ elf_bytes' = [elf_bytes EXCEPT !.eh[f] = new]
              /\ history' = [kind |-> "changed", field |-> f, from |-> elf_bytes]
    /\ parsed' = NotParsed
    /\ query' = NoQuery
    /\ steps' = <<>>

Next ==
    \/ Parse
    \/ SectionName
    \/ SymbolName
    \/ DynamicSymbolName
    \/ SymbolTable
    \/ Truncate
    \/ ChangeByte

Spec == Init /\ [][Next]_vars

-----------------------------------------------------------------------------
(* slice_from_bytes on its own: a buffer and a range are given *)

MaxOffset == 72

RecordTypes == DOMAIN size_of

BufferLengths == {0, 24, 64}

BufferAddresses == {4096, 4097, 4100}

\* the buffers slice_from_bytes is given: it reads no byte of them
SliceBuffers ==
    {[MinimalImage EXCEPT !.len = n, !.addr = a] :
        n \in BufferLengths, a \in BufferAddresses}

InitSlice ==
    /\ elf_bytes \in SliceBuffers
    /\ parsed = NotParsed
    /\ query = NoQuery
    /\ history = Given
    /\ steps = <<>>

SliceFromBytes ==
    /\ query = NoQuery
    /\ \E T \in RecordTypes, start \in 0..MaxOffset, end \in 0..MaxOffset :
          query' = [op |-> "slice_from_bytes", T |-> T, range |-> Range(start, end),
                    result |-> slice_from_bytes(T, elf_bytes, Range(start, end))]
    /\ UNCHANGED <<elf_bytes, parsed, history, steps>>

NextSlice == SliceFromBytes

SpecSlice == InitSlice /\ [][NextSlice]_vars

-----------------------------------------------------------------------------
(* The disassembler: the opcode catalogue (ebpf.rs) *)

\* ebpf::<name> is written ebpf.<name>.  An opcode is the sum of its class (the
\* three low bits), its source or mode modifier and its operation or size
ebpf ==
    LET BPF_LD == 0
        BPF_LDX == 1
        BPF_ST == 2
        BPF_STX == 3
        BPF_ALU32_LOAD == 4
        BPF_JMP == 5
        BPF_PQR == 6
        BPF_ALU64_STORE == 7
        BPF_W == 0
        BPF_H == 8
        BPF_B == 16
        BPF_DW == 24
        BPF_1B == 32
        BPF_2B == 48
        BPF_4B == 128
        BPF_8B == 144
        BPF_IMM == 0
        BPF_MEM == 96
        BPF_K == 0
        BPF_X == 8
        BPF_ADD == 0
        BPF_SUB == 16
        BPF_MUL == 32
        BPF_DIV == 48
        BPF_OR == 64
        BPF_AND == 80
        BPF_LSH == 96
        BPF_RSH == 112
        BPF_NEG == 128
        BPF_MOD == 144
        BPF_XOR == 160
        BPF_MOV == 176
        BPF_ARSH == 192
        BPF_END == 208
        BPF_HOR == 240
        BPF_LMUL == 128
        BPF_UHMUL == 32
        BPF_UDIV == 64
        BPF_UREM == 96
        BPF_SHMUL == 160
        BPF_SDIV == 192
        BPF_SREM == 224
        BPF_JA == 0
        BPF_JEQ == 16
        BPF_JGT == 32
        BPF_JGE == 48
        BPF_JSET == 64
        BPF_JNE == 80
        BPF_JSGT == 96
        BPF_JSGE == 112
        BPF_CALL == 128
        BPF_EXIT == 144
        BPF_JLT == 160
        BPF_JLE == 176
        BPF_JSLT == 192
        BPF_JSLE == 208
        BPF_SYSCALL == 144
    IN  [LD_DW_IMM |-> BPF_LD + BPF_IMM + BPF_DW,
         LD_B_REG |-> BPF_LDX + BPF_MEM + BPF_B,
         LD_H_REG |-> BPF_LDX + BPF_MEM + BPF_H,
         LD_W_REG |-> BPF_LDX + BPF_MEM + BPF_W,
         LD_DW_REG |-> BPF_LDX + BPF_MEM + BPF_DW,
         ST_B_IMM |-> BPF_ST + BPF_MEM + BPF_B,
         ST_H_IMM |-> BPF_ST + BPF_MEM + BPF_H,
         ST_W_IMM |-> BPF_ST + BPF_MEM + BPF_W,
         ST_DW_IMM |-> BPF_ST + BPF_MEM + BPF_DW,
         ST_B_REG |-> BPF_STX + BPF_MEM + BPF_B,
         ST_H_REG |-> BPF_STX + BPF_MEM + BPF_H,
         ST_W_REG |-> BPF_STX + BPF_MEM + BPF_W,
         ST_DW_REG |-> BPF_STX + BPF_MEM + BPF_DW,
         LD_1B_REG |-> BPF_ALU32_LOAD + BPF_X + BPF_1B,
         LD_2B_REG |-> BPF_ALU32_LOAD + BPF_X + BPF_2B,
         LD_4B_REG |-> BPF_ALU32_LOAD + BPF_X + BPF_4B,
         LD_8B_REG |-> BPF_ALU32_LOAD + BPF_X + BPF_8B,
         ST_1B_IMM |-> BPF_ALU64_STORE + BPF_K + BPF_1B,
         ST_1B_REG |-> BPF_ALU64_STORE + BPF_X + BPF_1B,
         ST_2B_IMM |-> BPF_ALU64_STORE + BPF_K + BPF_2B,
         ST_2B_REG |-> BPF_ALU64_STORE + BPF_X + BPF_2B,
         ST_4B_IMM |-> BPF_ALU64_STORE + BPF_K + BPF_4B,
         ST_4B_REG |-> BPF_ALU64_STORE + BPF_X + BPF_4B,
         ST_8B_IMM |-> BPF_ALU64_STORE + BPF_K + BPF_8B,
         ST_8B_REG |-> BPF_ALU64_STORE + BPF_X + BPF_8B,
         ADD32_IMM |-> BPF_ALU32_LOAD + BPF_K + BPF_ADD,
         ADD32_REG |-> BPF_ALU32_LOAD + BPF_X + BPF_ADD,
         SUB32_IMM |-> BPF_ALU32_LOAD + BPF_K + BPF_SUB,
         SUB32_REG |-> BPF_ALU32_LOAD + BPF_X + BPF_SUB,
         MUL32_IMM |-> BPF_ALU32_LOAD + BPF_K + BPF_MUL,
         MUL32_REG |-> BPF_ALU32_LOAD + BPF_X + BPF_MUL,
         DIV32_IMM |-> BPF_ALU32_LOAD + BPF_K + BPF_DIV,
         DIV32_REG |-> BPF_ALU32_LOAD + BPF_X + BPF_DIV,
         OR32_IMM |-> BPF_ALU32_LOAD + BPF_K + BPF_OR,
         OR32_REG |-> BPF_ALU32_LOAD + BPF_X + BPF_OR,
         AND32_IMM |-> BPF_ALU32_LOAD + BPF_K + BPF_AND,
         AND32_REG |-> BPF_ALU32_LOAD + BPF_X + BPF_AND,
         LSH32_IMM |-> BPF_ALU32_LOAD + BPF_K + BPF_LSH,
         LSH32_REG |-> BPF_ALU32_LOAD + BPF_X + BPF_LSH,
         RSH32_IMM |-> BPF_ALU32_LOAD + BPF_K + BPF_RSH,
         RSH32_REG |-> BPF_ALU32_LOAD + BPF_X + BPF_RSH,
         MOD32_IMM |-> BPF_ALU32_LOAD + BPF_K + BPF_MOD,
         MOD32_REG |-> BPF_ALU32_LOAD + BPF_X + BPF_MOD,
         XOR32_IMM |-> BPF_ALU32_LOAD + BPF_K + BPF_XOR,
         XOR32_REG |-> BPF_ALU32_LOAD + BPF_X + BPF_XOR,
         MOV32_IMM |-> BPF_ALU32_LOAD + BPF_K + BPF_MOV,
         MOV32_REG |-> BPF_ALU32_LOAD + BPF_X + BPF_MOV,
         ARSH32_IMM |-> BPF_ALU32_LOAD + BPF_K + BPF_ARSH,
         ARSH32_REG |-> BPF_ALU32_LOAD + BPF_X + BPF_ARSH,
         NEG32 |-> BPF_ALU32_LOAD + BPF_NEG,
         ADD64_IMM |-> BPF_ALU64_STORE + BPF_K + BPF_ADD,
         ADD64_REG |-> BPF_ALU64_STORE + BPF_X + BPF_ADD,
         SUB64_IMM |-> BPF_ALU64_STORE + BPF_K + BPF_SUB,
         SUB64_REG |-> BPF_ALU64_STORE + BPF_X + BPF_SUB,
         MUL64_IMM |-> BPF_ALU64_STORE + BPF_K + BPF_MUL,
         MUL64_REG |-> BPF_ALU64_STORE + BPF_X + BPF_MUL,
         DIV64_IMM |-> BPF_ALU64_STORE + BPF_K + BPF_DIV,
         DIV64_REG |-> BPF_ALU64_STORE + BPF_X + BPF_DIV,
         OR64_IMM |-> BPF_ALU64_STORE + BPF_K + BPF_OR,
         OR64_REG |-> BPF_ALU64_STORE + BPF_X + BPF_OR,
         AND64_IMM |-> BPF_ALU64_STORE + BPF_K + BPF_AND,
         AND64_REG |-> BPF_ALU64_STORE + BPF_X + BPF_AND,
         LSH64_IMM |-> BPF_ALU64_STORE + BPF_K + BPF_LSH,
         LSH64_REG |-> BPF_ALU64_STORE + BPF_X + BPF_LSH,
         RSH64_IMM |-> BPF_ALU64_STORE + BPF_K + BPF_RSH,
         RSH64_REG |-> BPF_ALU64_STORE + BPF_X + BPF_RSH,
         MOD64_IMM |-> BPF_ALU64_STORE + BPF_K + BPF_MOD,
         MOD64_REG |-> BPF_ALU64_STORE + BPF_X + BPF_MOD,
         XOR64_IMM |-> BPF_ALU64_STORE + BPF_K + BPF_XOR,
         XOR64_REG |-> BPF_ALU64_STORE + BPF_X + BPF_XOR,
         MOV64_IMM |-> BPF_ALU64_STORE + BPF_K + BPF_MOV,
         MOV64_REG |-> BPF_ALU64_STORE + BPF_X + BPF_MOV,
         ARSH64_IMM |-> BPF_ALU64_STORE + BPF_K + BPF_ARSH,
         ARSH64_REG |-> BPF_ALU64_STORE + BPF_X + BPF_ARSH,
         NEG64 |-> BPF_ALU64_STORE + BPF_NEG,
         LE |-> BPF_ALU32_LOAD + BPF_K + BPF_END,
         BE |-> BPF_ALU32_LOAD + BPF_X + BPF_END,
         HOR64_IMM |-> BPF_ALU64_STORE + BPF_K + BPF_HOR,
         LMUL32_IMM |-> BPF_PQR + BPF_K + BPF_LMUL,
         LMUL32_REG |-> BPF_PQR + BPF_X + BPF_LMUL,
         LMUL64_IMM |-> BPF_PQR + BPF_B + BPF_K + BPF_LMUL,
         LMUL64_REG |-> BPF_PQR + BPF_B + BPF_X + BPF_LMUL,
         UHMUL64_IMM |-> BPF_PQR + BPF_B + BPF_K + BPF_UHMUL,
         UHMUL64_REG |-> BPF_PQR + BPF_B + BPF_X + BPF_UHMUL,
         SHMUL64_IMM |-> BPF_PQR + BPF_B + BPF_K + BPF_SHMUL,
         SHMUL64_REG |-> BPF_PQR + BPF_B + BPF_X + BPF_SHMUL,
         UDIV32_IMM |-> BPF_PQR + BPF_K + BPF_UDIV,
         UDIV32_REG |-> BPF_PQR + BPF_X + BPF_UDIV,
         UDIV64_IMM |-> BPF_PQR + BPF_B + BPF_K + BPF_UDIV,
         UDIV64_REG |-> BPF_PQR + BPF_B + BPF_X + BPF_UDIV,
         UREM32_IMM |-> BPF_PQR + BPF_K + BPF_UREM,
         UREM32_REG |-> BPF_PQR + BPF_X + BPF_UREM,
         UREM64_IMM |-> BPF_PQR + BPF_B + BPF_K + BPF_UREM,
         UREM64_REG |-> BPF_PQR + BPF_B + BPF_X + BPF_UREM,
         SDIV32_IMM |-> BPF_PQR + BPF_K + BPF_SDIV,
         SDIV32_REG |-> BPF_PQR + BPF_X + BPF_SDIV,
         SDIV64_IMM |-> BPF_PQR + BPF_B + BPF_K + BPF_SDIV,
         SDIV64_REG |-> BPF_PQR + BPF_B + BPF_X + BPF_SDIV,
         SREM32_IMM |-> BPF_PQR + BPF_K + BPF_SREM,
         SREM32_REG |-> BPF_PQR + BPF_X + BPF_SREM,
         SREM64_IMM |-> BPF_PQR + BPF_B + BPF_K + BPF_SREM,
         SREM64_REG |-> BPF_PQR + BPF_B + BPF_X + BPF_SREM,
         JA |-> BPF_JMP + BPF_JA,
         JEQ_IMM |-> BPF_JMP + BPF_K + BPF_JEQ,
         JEQ_REG |-> BPF_JMP + BPF_X + BPF_JEQ,
         JGT_IMM |-> BPF_JMP + BPF_K + BPF_JGT,
         JGT_REG |-> BPF_JMP + BPF_X + BPF_JGT,
         JGE_IMM |-> BPF_JMP + BPF_K + BPF_JGE,
         JGE_REG |-> BPF_JMP + BPF_X + BPF_JGE,
         JLT_IMM |-> BPF_JMP + BPF_K + BPF_JLT,
         JLT_REG |-> BPF_JMP + BPF_X + BPF_JLT,
         JLE_IMM |-> BPF_JMP + BPF_K + BPF_JLE,
         JLE_REG |-> BPF_JMP + BPF_X + BPF_JLE,
         JSET_IMM |-> BPF_JMP + BPF_K + BPF_JSET,
         JSET_REG |-> BPF_JMP + BPF_X + BPF_JSET,
         JNE_IMM |-> BPF_JMP + BPF_K + BPF_JNE,
         JNE_REG |-> BPF_JMP + BPF_X + BPF_JNE,
         JSGT_IMM |-> BPF_JMP + BPF_K + BPF_JSGT,
         JSGT_REG |-> BPF_JMP + BPF_X + BPF_JSGT,
         JSGE_IMM |-> BPF_JMP + BPF_K + BPF_JSGE,
         JSGE_REG |-> BPF_JMP + BPF_X + BPF_JSGE,
         JSLT_IMM |-> BPF_JMP + BPF_K + BPF_JSLT,
         JSLT_REG |-> BPF_JMP + BPF_X + BPF_JSLT,
         JSLE_IMM |-> BPF_JMP + BPF_K + BPF_JSLE,
         JSLE_REG |-> BPF_JMP + BPF_X + BPF_JSLE,
         CALL_IMM |-> BPF_JMP + BPF_CALL,
         CALL_REG |-> BPF_JMP + BPF_X + BPF_CALL,
         EXIT |-> BPF_JMP + BPF_EXIT,
         RETURN |-> BPF_JMP + BPF_X + BPF_EXIT,
         SYSCALL |-> BPF_JMP + BPF_SYSCALL]

-----------------------------------------------------------------------------
(* The disassembler: what it is given *)

\* the machine integers of the disassembler are as wide as the machine word
\* above: `as usize` and `as u32` wrap at USIZE_MAX + 1
as_usize(n) == n % (USIZE_MAX + 1)

as_u32(n) == n % (USIZE_MAX + 1)

as_u8(n) == n % 256

\* SBPFVersion, the dialect: the predicates the disassembler asks of it
Dialects ==
    [move_memory_instruction_classes : BOOLEAN, enable_pqr : BOOLEAN,
     disable_neg : BOOLEAN, static_syscalls : BOOLEAN, callx_uses_src_reg : BOOLEAN]

\* SBPFVersion::calculate_call_imm_target_pc: the key of the function a
\* call instruction at `pc` with immediate `imm` names
calculate_call_imm_target_pc(sbpf_version, pc, imm) ==
    IF sbpf_version.static_syscalls THEN as_u32(pc + imm + 1) ELSE as_u32(imm)

\* FunctionRegistry::lookup_by_key: a registry is a function from its keys to
\* the names (bytes) registered under them
lookup_by_key(registry, key) ==
    IF key \in DOMAIN registry THEN Some(registry[key]) ELSE None

-----------------------------------------------------------------------------
(* The disassembler: formatting *)

\* {:#x} of an integer: the hexadecimal digits of a value that is not
\* negative, the sixteen digits of its two's complement in 64 bits otherwise
LowerHex(n) ==
    LET HexDigit(d) ==
            CASE d = 0 -> "0" [] d = 1 -> "1" [] d = 2 -> "2" [] d = 3 -> "3"
              [] d = 4 -> "4" [] d = 5 -> "5" [] d = 6 -> "6" [] d = 7 -> "7"
              [] d = 8 -> "8" [] d = 9 -> "9" [] d = 10 -> "a" [] d = 11 -> "b"
              [] d = 12 -> "c" [] d = 13 -> "d" [] d = 14 -> "e" [] d = 15 -> "f"
        RECURSIVE HexDigits(_)
        HexDigits(m) ==
            IF m < 16 THEN HexDigit(m) ELSE HexDigits(m \div 16) \o HexDigit(m % 16)
        RECURSIVE TwosDigits(_, _)
        TwosDigits(m, k) ==
            IF k = 0 THEN ""
            ELSE TwosDigits(m \div 16, k - 1) \o HexDigit(15 - (m % 16))
    IN  "0x" \o (IF n >= 0 THEN HexDigits(n) ELSE TwosDigits(-n - 1, 16))

\* {} of an integer
Display(n) == ToString(n)

\* String::from_utf8_lossy(function_name).to_string(), for the characters of
\* the names of the model; U+FFFD is written <U+FFFD>
NameString(function_name) ==
    LET CharOf(c) ==
            CASE c = 97 -> "a" [] c = 98 -> "b" [] c = 102 -> "f" [] c = 108 -> "l"
              [] c = 111 -> "o" [] c = 114 -> "r" [] c = 95 -> "_"
              [] c = 65533 -> "<U+FFFD>"
        RECURSIVE Chars(_, _)
        Chars(code_points, i) ==
            IF i > Len(code_points) THEN ""
            ELSE CharOf(code_points[i]) \o Chars(code_points, i + 1)
    IN  Chars(from_utf8_lossy(function_name), 1)

resolve_label(cfg_nodes, pc) ==
    IF pc \in DOMAIN cfg_nodes THEN cfg_nodes[pc].label ELSE "[invalid]"

alu_imm_str(name, insn) ==
    name \o " r" \o Display(insn.dst) \o ", " \o Display(insn.imm)

alu_reg_str(name, insn) ==
    name \o " r" \o Display(insn.dst) \o ", r" \o Display(insn.src)

\* the warning byteswap_str logs for a width that is not 16, 32 or 64
byteswap_warning(name, insn) ==
    IF insn.imm \in {16, 32, 64} THEN <<>>
    ELSE <<"[Disassembler] Warning: Invalid offset value for " \o name \o " insn">>

byteswap_str(name, insn) ==
    name \o Display(insn.imm) \o " r" \o Display(insn.dst)

signed_off_str(value) ==
    IF value < 0 THEN "-" \o LowerHex(-value) ELSE "+" \o LowerHex(value)

ld_st_imm_str(name, insn) ==
    name \o " [r" \o Display(insn.dst) \o signed_off_str(insn.off) \o "], "
        \o Display(insn.imm)

ld_reg_str(name, insn) ==
    name \o " r" \o Display(insn.dst) \o ", [r" \o Display(insn.src)
        \o signed_off_str(insn.off) \o "]"

st_reg_str(name, insn) ==
    name \o " [r" \o Display(insn.dst) \o signed_off_str(insn.off) \o "], r"
        \o Display(insn.src)

\* target_pc with a step missing: insn.ptr + insn.off
target_pc_of_offset(insn) == as_usize(insn.ptr + insn.off)

\* let target_pc = (insn.ptr as isize + insn.off as isize + 1) as usize
target_pc(insn) == as_usize(insn.ptr + insn.off + 1)

jmp_imm_str(name, insn, cfg_nodes) ==
    name \o " r" \o Display(insn.dst) \o ", " \o Display(insn.imm) \o ", "
        \o resolve_label(cfg_nodes, target_pc(insn))

jmp_reg_str(name, insn, cfg_nodes) ==
    name \o " r" \o Display(insn.dst) \o ", r" \o Display(insn.src) \o ", "
        \o resolve_label(cfg_nodes, target_pc(insn))

\* the arm of ebpf::CALL_IMM that asks the loader whatever the dialect
call_imm_str_dynamic(insn, pc, function_registry, loader, sbpf_version) ==
    LET key == calculate_call_imm_target_pc(sbpf_version, pc, insn.imm)
        own == lookup_by_key(function_registry, key)
        function_name == IF ~own.some
                         THEN lookup_by_key(loader.function_registry, as_u32(insn.imm))
                         ELSE own
    IN  (IF ~own.some THEN "syscall" ELSE "call") \o " "
            \o (IF function_name.some THEN NameString(function_name.v) ELSE "[invalid]")

\* the arm of ebpf::CALL_IMM
call_imm_str(insn, pc, function_registry, loader, sbpf_version) ==
    LET key == calculate_call_imm_target_pc(sbpf_version, pc, insn.imm)
        own == lookup_by_key(function_registry, key)
        dynamic == ~sbpf_version.static_syscalls /\ ~own.some
        function_name == IF dynamic
                         THEN lookup_by_key(loader.function_registry, as_u32(insn.imm))
                         ELSE own
    IN  (IF dynamic THEN "syscall" ELSE "call") \o " "
            \o (IF function_name.some THEN NameString(function_name.v) ELSE "[invalid]")

-----------------------------------------------------------------------------
(* The disassembler: the arms of `match insn.opc`, in the order of the code *)

\* one arm: the opcode it matches, its guard under the dialect, the mnemonic
\* and the form of the text
Arm(opc, on, name, form) == [opc |-> opc, on |-> on, name |-> name, form |-> form]

\* EndArms with an ebpf::EXIT arm that has no guard
EndArms_exit_always(sbpf_version) ==
    <<Arm(ebpf.EXIT, TRUE, "exit", "name"),
      Arm(ebpf.RETURN, sbpf_version.static_syscalls, "return", "name"),
      Arm(ebpf.SYSCALL, sbpf_version.static_syscalls, "syscall", "syscall")>>

\* BPF_JMP class: the end of the program and the static syscall
EndArms(sbpf_version) ==
    <<Arm(ebpf.EXIT, ~sbpf_version.static_syscalls, "exit", "name"),
      Arm(ebpf.RETURN, sbpf_version.static_syscalls, "return", "name"),
      Arm(ebpf.SYSCALL, sbpf_version.static_syscalls, "syscall", "syscall")>>

\* the arms in the order of the code
Arms(sbpf_version) ==
    LET \* BPF_LD class
        LoadImmediateArms ==
            <<Arm(ebpf.LD_DW_IMM, TRUE, "lddw", "lddw")>>

        \* BPF_LDX, BPF_ST and BPF_STX classes
        LegacyMemoryArms ==
            <<Arm(ebpf.LD_B_REG, ~sbpf_version.move_memory_instruction_classes, "ldxb", "ld_reg"),
              Arm(ebpf.LD_H_REG, ~sbpf_version.move_memory_instruction_classes, "ldxh", "ld_reg"),
              Arm(ebpf.LD_W_REG, ~sbpf_version.move_memory_instruction_classes, "ldxw", "ld_reg"),
              Arm(ebpf.LD_DW_REG, ~sbpf_version.move_memory_instruction_classes, "ldxdw", "ld_reg"),
              Arm(ebpf.ST_B_IMM, ~sbpf_version.move_memory_instruction_classes, "stb", "ld_st_imm"),
              Arm(ebpf.ST_H_IMM, ~sbpf_version.move_memory_instruction_classes, "sth", "ld_st_imm"),
              Arm(ebpf.ST_W_IMM, ~sbpf_version.move_memory_instruction_classes, "stw", "ld_st_imm"),
              Arm(ebpf.ST_DW_IMM, ~sbpf_version.move_memory_instruction_classes, "stdw", "ld_st_imm"),
              Arm(ebpf.ST_B_REG, ~sbpf_version.move_memory_instruction_classes, "stxb", "st_reg"),
              Arm(ebpf.ST_H_REG, ~sbpf_version.move_memory_instruction_classes, "stxh", "st_reg"),
              Arm(ebpf.ST_W_REG, ~sbpf_version.move_memory_instruction_classes, "stxw", "st_reg"),
              Arm(ebpf.ST_DW_REG, ~sbpf_version.move_memory_instruction_classes, "stxdw", "st_reg")>>

        \* BPF_ALU32_LOAD class, with the moved loads
        Alu32LoadArms ==
            <<Arm(ebpf.ADD32_IMM, TRUE, "add32", "alu_imm"),
              Arm(ebpf.ADD32_REG, TRUE, "add32", "alu_reg"),
              Arm(ebpf.SUB32_IMM, TRUE, "sub32", "alu_imm"),
              Arm(ebpf.SUB32_REG, TRUE, "sub32", "alu_reg"),
              Arm(ebpf.MUL32_IMM, ~sbpf_version.enable_pqr, "mul32", "alu_imm"),
              Arm(ebpf.MUL32_REG, ~sbpf_version.enable_pqr, "mul32", "alu_reg"),
              Arm(ebpf.LD_1B_REG, sbpf_version.move_memory_instruction_classes, "ldxb", "ld_reg"),
              Arm(ebpf.DIV32_IMM, ~sbpf_version.enable_pqr, "div32", "alu_imm"),
              Arm(ebpf.DIV32_REG, ~sbpf_version.enable_pqr, "div32", "alu_reg"),
              Arm(ebpf.LD_2B_REG, sbpf_version.move_memory_instruction_classes, "ldxh", "ld_reg"),
              Arm(ebpf.OR32_IMM, TRUE, "or32", "alu_imm"),
              Arm(ebpf.OR32_REG, TRUE, "or32", "alu_reg"),
              Arm(ebpf.AND32_IMM, TRUE, "and32", "alu_imm"),
              Arm(ebpf.AND32_REG, TRUE, "and32", "alu_reg"),
              Arm(ebpf.LSH32_IMM, TRUE, "lsh32", "alu_imm"),
              Arm(ebpf.LSH32_REG, TRUE, "lsh32", "alu_reg"),
              Arm(ebpf.RSH32_IMM, TRUE, "rsh32", "alu_imm"),
              Arm(ebpf.RSH32_REG, TRUE, "rsh32", "alu_reg"),
              Arm(ebpf.NEG32, ~sbpf_version.disable_neg, "neg32", "neg"),
              Arm(ebpf.LD_4B_REG, sbpf_version.move_memory_instruction_classes, "ldxw", "ld_reg"),
              Arm(ebpf.MOD32_IMM, ~sbpf_version.enable_pqr, "mod32", "alu_imm"),
              Arm(ebpf.MOD32_REG, ~sbpf_version.enable_pqr, "mod32", "alu_reg"),
              Arm(ebpf.LD_8B_REG, sbpf_version.move_memory_instruction_classes, "ldxdw", "ld_reg"),
              Arm(ebpf.XOR32_IMM, TRUE, "xor32", "alu_imm"),
              Arm(ebpf.XOR32_REG, TRUE, "xor32", "alu_reg"),
              Arm(ebpf.MOV32_IMM, TRUE, "mov32", "alu_imm"),
              Arm(ebpf.MOV32_REG, TRUE, "mov32", "alu_reg"),
              Arm(ebpf.ARSH32_IMM, TRUE, "arsh32", "alu_imm"),
              Arm(ebpf.ARSH32_REG, TRUE, "arsh32", "alu_reg"),
              Arm(ebpf.LE, TRUE, "le", "byteswap"),
              Arm(ebpf.BE, TRUE, "be", "byteswap")>>

        \* BPF_ALU64_STORE class, with the moved stores
        Alu64StoreArms ==
            <<Arm(ebpf.ADD64_IMM, TRUE, "add64", "alu_imm"),
              Arm(ebpf.ADD64_REG, TRUE, "add64", "alu_reg"),
              Arm(ebpf.SUB64_IMM, TRUE, "sub64", "alu_imm"),
              Arm(ebpf.SUB64_REG, TRUE, "sub64", "alu_reg"),
              Arm(ebpf.MUL64_IMM, ~sbpf_version.enable_pqr, "mul64", "alu_imm"),
              Arm(ebpf.ST_1B_IMM, sbpf_version.move_memory_instruction_classes, "stb", "ld_st_imm"),
              Arm(ebpf.MUL64_REG, ~sbpf_version.enable_pqr, "mul64", "alu_reg"),
              Arm(ebpf.ST_1B_REG, sbpf_version.move_memory_instruction_classes, "stxb", "st_reg"),
              Arm(ebpf.DIV64_IMM, ~sbpf_version.enable_pqr, "div64", "alu_imm"),
              Arm(ebpf.ST_2B_IMM, sbpf_version.move_memory_instruction_classes, "sth", "ld_st_imm"),
              Arm(ebpf.DIV64_REG, ~sbpf_version.enable_pqr, "div64", "alu_reg"),
              Arm(ebpf.ST_2B_REG, sbpf_version.move_memory_instruction_classes, "stxh", "st_reg"),
              Arm(ebpf.OR64_IMM, TRUE, "or64", "alu_imm"),
              Arm(ebpf.OR64_REG, TRUE, "or64", "alu_reg"),
              Arm(ebpf.AND64_IMM, TRUE, "and64", "alu_imm"),
              Arm(ebpf.AND64_REG, TRUE, "and64", "alu_reg"),
              Arm(ebpf.LSH64_IMM, TRUE, "lsh64", "alu_imm"),
              Arm(ebpf.LSH64_REG, TRUE, "lsh64", "alu_reg"),
              Arm(ebpf.RSH64_IMM, TRUE, "rsh64", "alu_imm"),
              Arm(ebpf.RSH64_REG, TRUE, "rsh64", "alu_reg"),
              Arm(ebpf.ST_4B_IMM, sbpf_version.move_memory_instruction_classes, "stw", "ld_st_imm"),
              Arm(ebpf.NEG64, ~sbpf_version.disable_neg, "neg64", "neg"),
              Arm(ebpf.ST_4B_REG, sbpf_version.move_memory_instruction_classes, "stxw", "st_reg"),
              Arm(ebpf.MOD64_IMM, ~sbpf_version.enable_pqr, "mod64", "alu_imm"),
              Arm(ebpf.ST_8B_IMM, sbpf_version.move_memory_instruction_classes, "stdw", "ld_st_imm"),
              Arm(ebpf.MOD64_REG, ~sbpf_version.enable_pqr, "mod64", "alu_reg"),
              Arm(ebpf.ST_8B_REG, sbpf_version.move_memory_instruction_classes, "stxdw", "st_reg"),
              Arm(ebpf.XOR64_IMM, TRUE, "xor64", "alu_imm"),
              Arm(ebpf.XOR64_REG, TRUE, "xor64", "alu_reg"),
              Arm(ebpf.MOV64_IMM, TRUE, "mov64", "alu_imm"),
              Arm(ebpf.MOV64_REG, TRUE, "mov64", "alu_reg"),
              Arm(ebpf.ARSH64_IMM, TRUE, "arsh64", "alu_imm"),
              Arm(ebpf.ARSH64_REG, TRUE, "arsh64", "alu_reg"),
              Arm(ebpf.HOR64_IMM, TRUE, "hor64", "alu_imm")>>

        \* BPF_PQR class
        PqrArms ==
            <<Arm(ebpf.LMUL32_IMM, sbpf_version.enable_pqr, "lmul32", "alu_imm"),
              Arm(ebpf.LMUL32_REG, sbpf_version.enable_pqr, "lmul32", "alu_reg"),
              Arm(ebpf.LMUL64_IMM, sbpf_version.enable_pqr, "lmul64", "alu_imm"),
              Arm(ebpf.LMUL64_REG, sbpf_version.enable_pqr, "lmul64", "alu_reg"),
              Arm(ebpf.UHMUL64_IMM, sbpf_version.enable_pqr, "uhmul64", "alu_imm"),
              Arm(ebpf.UHMUL64_REG, sbpf_version.enable_pqr, "uhmul64", "alu_reg"),
              Arm(ebpf.SHMUL64_IMM, sbpf_version.enable_pqr, "shmul64", "alu_imm"),
              Arm(ebpf.SHMUL64_REG, sbpf_version.enable_pqr, "shmul64", "alu_reg"),
              Arm(ebpf.UDIV32_IMM, sbpf_version.enable_pqr, "udiv32", "alu_imm"),
              Arm(ebpf.UDIV32_REG, sbpf_version.enable_pqr, "udiv32", "alu_reg"),
              Arm(ebpf.UDIV64_IMM, sbpf_version.enable_pqr, "udiv64", "alu_imm"),
              Arm(ebpf.UDIV64_REG, sbpf_version.enable_pqr, "udiv64", "alu_reg"),
              Arm(ebpf.UREM32_IMM, sbpf_version.enable_pqr, "urem32", "alu_imm"),
              Arm(ebpf.UREM32_REG, sbpf_version.enable_pqr, "urem32", "alu_reg"),
              Arm(ebpf.UREM64_IMM, sbpf_version.enable_pqr, "urem64", "alu_imm"),
              Arm(ebpf.UREM64_REG, sbpf_version.enable_pqr, "urem64", "alu_reg"),
              Arm(ebpf.SDIV32_IMM, sbpf_version.enable_pqr, "sdiv32", "alu_imm"),
              Arm(ebpf.SDIV32_REG, sbpf_version.enable_pqr, "sdiv32", "alu_reg"),
              Arm(ebpf.SDIV64_IMM, sbpf_version.enable_pqr, "sdiv64", "alu_imm"),
              Arm(ebpf.SDIV64_REG, sbpf_version.enable_pqr, "sdiv64", "alu_reg"),
              Arm(ebpf.SREM32_IMM, sbpf_version.enable_pqr, "srem32", "alu_imm"),
              Arm(ebpf.SREM32_REG, sbpf_version.enable_pqr, "srem32", "alu_reg"),
              Arm(ebpf.SREM64_IMM, sbpf_version.enable_pqr, "srem64", "alu_imm"),
              Arm(ebpf.SREM64_REG, sbpf_version.enable_pqr, "srem64", "alu_reg")>>

        \* BPF_JMP class: the branches
        JumpArms ==
            <<Arm(ebpf.JA, TRUE, "ja", "ja"),
              Arm(ebpf.JEQ_IMM, TRUE, "jeq", "jmp_imm"),
              Arm(ebpf.JEQ_REG, TRUE, "jeq", "jmp_reg"),
              Arm(ebpf.JGT_IMM, TRUE, "jgt", "jmp_imm"),
              Arm(ebpf.JGT_REG, TRUE, "jgt", "jmp_reg"),
              Arm(ebpf.JGE_IMM, TRUE, "jge", "jmp_imm"),
              Arm(ebpf.JGE_REG, TRUE, "jge", "jmp_reg"),
              Arm(ebpf.JLT_IMM, TRUE, "jlt", "jmp_imm"),
              Arm(ebpf.JLT_REG, TRUE, "jlt", "jmp_reg"),
              Arm(ebpf.JLE_IMM, TRUE, "jle", "jmp_imm"),
              Arm(ebpf.JLE_REG, TRUE, "jle", "jmp_reg"),
              Arm(ebpf.JSET_IMM, TRUE, "jset", "jmp_imm"),
              Arm(ebpf.JSET_REG, TRUE, "jset", "jmp_reg"),
              Arm(ebpf.JNE_IMM, TRUE, "jne", "jmp_imm"),
              Arm(ebpf.JNE_REG, TRUE, "jne", "jmp_reg"),
              Arm(ebpf.JSGT_IMM, TRUE, "jsgt", "jmp_imm"),
              Arm(ebpf.JSGT_REG, TRUE, "jsgt", "jmp_reg"),
              Arm(ebpf.JSGE_IMM, TRUE, "jsge", "jmp_imm"),
              Arm(ebpf.JSGE_REG, TRUE, "jsge", "jmp_reg"),
              Arm(ebpf.JSLT_IMM, TRUE, "jslt", "jmp_imm"),
              Arm(ebpf.JSLT_REG, TRUE, "jslt", "jmp_reg"),
              Arm(ebpf.JSLE_IMM, TRUE, "jsle", "jmp_imm"),
              Arm(ebpf.JSLE_REG, TRUE, "jsle", "jmp_reg")>>

        \* BPF_JMP class: the calls
        CallArms ==
            <<Arm(ebpf.CALL_IMM, TRUE, "call", "call_imm"),
              Arm(ebpf.CALL_REG, TRUE, "callx", "call_reg")>>
    IN  LoadImmediateArms \o LegacyMemoryArms \o Alu32LoadArms \o Alu64StoreArms
            \o PqrArms \o JumpArms \o CallArms \o EndArms(sbpf_version)

\* the arm a match takes that prefers the last arm that matches
MatchArm_last(arms, opc) ==
    LET hits == {k \in DOMAIN arms : arms[k].opc = opc /\ arms[k].on}
    IN  IF hits = {} THEN 0 ELSE CHOOSE k \in hits : \A h \in hits : h <= k

\* the arm `match insn.opc` takes: the first whose pattern is the opcode and
\* whose guard holds, 0 for the `_` arm
MatchArm(arms, opc) ==
    LET hits == {k \in DOMAIN arms : arms[k].opc = opc /\ arms[k].on}
    IN  IF hits = {} THEN 0 ELSE CHOOSE k \in hits : \A h \in hits : k <= h

\* the text of an arm
Render(arm, insn, pc, cfg_nodes, function_registry, loader, sbpf_version) ==
    CASE arm.form = "lddw" ->
             arm.name \o " r" \o Display(insn.dst) \o ", " \o LowerHex(insn.imm)
      [] arm.form = "ld_reg" -> ld_reg_str(arm.name, insn)
      [] arm.form = "ld_st_imm" -> ld_st_imm_str(arm.name, insn)
      [] arm.form = "st_reg" -> st_reg_str(arm.name, insn)
      [] arm.form = "alu_imm" -> alu_imm_str(arm.name, insn)
      [] arm.form = "alu_reg" -> alu_reg_str(arm.name, insn)
      [] arm.form = "neg" -> arm.name \o " r" \o Display(insn.dst)
      [] arm.form = "byteswap" -> byteswap_str(arm.name, insn)
      [] arm.form = "ja" ->
             arm.name \o " " \o resolve_label(cfg_nodes, target_pc(insn))
      [] arm.form = "jmp_imm" -> jmp_imm_str(arm.name, insn, cfg_nodes)
      [] arm.form = "jmp_reg" -> jmp_reg_str(arm.name, insn, cfg_nodes)
      [] arm.form = "call_imm" ->
             call_imm_str(insn, pc, function_registry, loader, sbpf_version)
      [] arm.form = "call_reg" ->
             arm.name \o " r" \o Display(IF sbpf_version.callx_uses_src_reg
                                      THEN insn.src ELSE as_u8(insn.imm))
      [] arm.form = "name" -> arm.name
      [] arm.form = "syscall" -> "syscall " \o Display(insn.imm)

disassemble_instruction(insn, pc, cfg_nodes, function_registry, loader, sbpf_version) ==
    LET arms == Arms(sbpf_version)
        k == MatchArm(arms, insn.opc)
    IN  IF k = 0 THEN "unknown opcode=" \o LowerHex(insn.opc)
        ELSE Render(arms[k], insn, pc, cfg_nodes, function_registry, loader, sbpf_version)

\* what disassemble_instruction logs through info!
Diagnostics(insn, sbpf_version) ==
    LET arms == Arms(sbpf_version)
        k == MatchArm(arms, insn.opc)
    IN  IF k /= 0 /\ arms[k].form = "byteswap"
        THEN byteswap_warning(arms[k].name, insn)
        ELSE <<>>

-----------------------------------------------------------------------------
(* The disassembler on its own: one instruction is given and rendered *)

Insn(opc, dst, src, off, imm, ptr) ==
    [opc |-> opc, dst |-> dst, src |-> src, off |-> off, imm |-> imm, ptr |-> ptr]

\* the registers, offsets, immediates and positions of the instructions
Operands ==
    {Insn(0, 1, 2, -4, 7, 10),
     Insn(0, 0, 0, 0, 0, 0),
     Insn(0, 10, 9, -2, -1, 0),
     Insn(0, 3, 4, 3, 57005, 10),
     Insn(0, 6, 7, 32767, 300, 3)}

\* the program counter, the labelled nodes, the registry of the program and
\* the loader of the calls; the names of functions are bytes: "foo", "bar"
\* and a name that is not UTF-8
Contexts ==
    LET CfgNode(label) == [label |-> label]
        NameFoo == <<102, 111, 111>>
        NameBar == <<98, 97, 114>>
        NameLossy == <<102, 255, 95>>
        NoNames == [key \in {} |-> <<>>]
        Context(at, cfg_nodes, function_registry, loader_registry) ==
            [pc |-> at, cfg_nodes |-> cfg_nodes,
             function_registry |-> function_registry,
             loader |-> [function_registry |-> loader_registry]]
    IN  {Context(10, [node \in {} |-> CfgNode("")], NoNames, NoNames),
         Context(10, 7 :> CfgNode("loop") @@ 14 :> CfgNode("lbb_14")
                     @@ USIZE_MAX :> CfgNode("last"),
                 7 :> NameBar @@ 18 :> NameFoo, 7 :> NameFoo @@ 57005 :> NameLossy),
         Context(0, 11 :> CfgNode("loop") @@ 6 :> CfgNode("lbb_6"),
                 57005 :> NameFoo @@ 8 :> NameBar, 0 :> NameBar),
         Context(3, 7 :> CfgNode("lbb_7") @@ 0 :> CfgNode("entry"),
                 NoNames, 7 :> NameLossy @@ 300 :> NameBar)}

InitDisassembler ==
    /\ elf_bytes = MinimalImage
    /\ parsed = NotParsed
    /\ query = NoQuery
    /\ history = Given
    /\ steps = <<>>

Disassemble ==
    /\ query = NoQuery
    /\ \E opc \in 0..255, operands \in Operands, context \in Contexts,
          sbpf_version \in Dialects :
          LET insn == [operands EXCEPT !.opc = opc]
          IN  query' = [op |-> "disassemble_instruction", insn |-> insn,
                        pc |-> context.pc, cfg_nodes |-> context.cfg_nodes,
                        function_registry |-> context.function_registry,
                        loader |-> context.loader, sbpf_version |-> sbpf_version,
                        result |-> disassemble_instruction(
                                       insn, context.pc, context.cfg_nodes,
                                       context.function_registry, context.loader,
                                       sbpf_version),
                        diagnostics |-> Diagnostics(insn, sbpf_version)]
    /\ UNCHANGED <<elf_bytes, parsed, history, steps>>

NextDisassembler == Disassemble

SpecDisassembler == InitDisassembler /\ [][NextDisassembler]_vars

-----------------------------------------------------------------------------
(* Properties *)

Parsed == parsed /= NotParsed

\* the view of a buffer that parsed
View == parsed.v

\* the spec's minimal image: valid header fields, e_phnum = 0, e_shnum = 1,
\* e_shstrndx = 0, and one all-zero SHT_NULL section header after the file
\* header, in an aligned buffer that holds both
IsMinimalImage(bytes) ==
    /\ bytes.addr % align_of.Elf64Ehdr = 0
    /\ ~HeaderFieldsInvalid(bytes.eh)
    /\ bytes.eh.e_phnum = 0
    /\ bytes.eh.e_shnum = 1
    /\ bytes.eh.e_shstrndx = 0
    /\ bytes.eh.e_phoff \in {0, size_of.Elf64Ehdr}
    /\ bytes.eh.e_shoff = size_of.Elf64Ehdr
    /\ bytes.len >= size_of.Elf64Ehdr + size_of.Elf64Shdr
    /\ ShdrAt(bytes, bytes.eh.e_shoff) = ZeroShdr

\* C1 as stated: parse of the minimal image succeeds, with an empty program
\* header table, a 1-entry section header table and no symbol table, dynamic
\* symbol table or dynamic relocations table.
C1_MinimalImageParses ==
    (Parsed /\ IsMinimalImage(elf_bytes)) =>
        /\ parsed.ok
        /\ View.program_header_table.len = 0
        /\ View.section_header_table.len = 1
        /\ symbol_table(elf_bytes, View) = Ok(None)
        /\ View.dynamic_symbol_table = None
        /\ View.dynamic_relocations_table = None

\* C1 amended: parse of the minimal image returns NoSectionNameStringTable
\* (e_shstrndx = SHN_UNDEF leaves parse_sections without a section name
\* table), so no view is returned.
C1_MinimalImageRejected ==
    (Parsed /\ IsMinimalImage(elf_bytes)) =>
        parsed = Err(E("NoSectionNameStringTable"))

C1_Witness ==
    /\ Parsed
    /\ elf_bytes = MinimalImage
    /\ ~parsed.ok

\* the end of a returned byte string
StringEnd(string) == string.start + Len(string.bytes)

NameQueries == {"section_name", "symbol_name", "dynamic_symbol_name"}

\* C2: every slice reachable from a parsed view ends at or before the end of
\* the buffer: the two header tables, the symbol table, the dynamic symbol
\* table, the dynamic relocations table, and every name returned by
\* section_name, symbol_name and dynamic_symbol_name.
C2_SlicesWithinBuffer ==
    parsed.ok =>
        /\ SliceEnd(View.program_header_table) <= elf_bytes.len
        /\ SliceEnd(View.section_header_table) <= elf_bytes.len
        /\ View.dynamic_relocations_table.some =>
               SliceEnd(View.dynamic_relocations_table.v) <= elf_bytes.len
        /\ View.dynamic_symbol_table.some =>
               SliceEnd(View.dynamic_symbol_table.v) <= elf_bytes.len
        /\ LET table == symbol_table(elf_bytes, View)
           IN  (table.ok /\ table.v.some) => SliceEnd(table.v.v) <= elf_bytes.len
        /\ (query.op \in NameQueries /\ query.result.ok) =>
               /\ query.result.v.start >= 0
               /\ StringEnd(query.result.v) <= elf_bytes.len

C2_Witness ==
    /\ parsed.ok
    /\ View.program_header_table.len > 0
    /\ View.dynamic_relocations_table.some
    /\ View.dynamic_symbol_table.some
    /\ query.op = "dynamic_symbol_name"
    /\ query.result.ok
    /\ Len(query.result.v.bytes) > 0

\* the three header ranges, from the fields of a file header
FileHeaderRange == Range(0, size_of.Elf64Ehdr)

ProgramHeaderTableRange(eh) ==
    Range(eh.e_phoff, eh.e_phoff + eh.e_phnum * size_of.Elf64Phdr)

SectionHeaderTableRange(eh) ==
    Range(eh.e_shoff, eh.e_shoff + eh.e_shnum * size_of.Elf64Shdr)

\* two ranges do not overlap: one ends at or before the start of the other
Apart(a, b) == a.end <= b.start \/ b.end <= a.start

\* parse gets as far as the program header table: the buffer holds an
\* aligned file header whose fields are valid
HeaderAccepted(bytes) ==
    /\ bytes.len >= size_of.Elf64Ehdr
    /\ bytes.addr % align_of.Elf64Ehdr = 0
    /\ ~HeaderFieldsInvalid(bytes.eh)

\* C3: in a buffer that parsed, the file header range, the program header
\* table range and the section header table range are pairwise
\* non-overlapping; and a buffer with an accepted file header whose program
\* header table shares bytes with the file header is rejected with Overlap.
C3_HeaderRangesApart ==
    /\ parsed.ok =>
          /\ Apart(FileHeaderRange, ProgramHeaderTableRange(View.file_header))
          /\ Apart(FileHeaderRange, SectionHeaderTableRange(View.file_header))
          /\ Apart(ProgramHeaderTableRange(View.file_header),
                   SectionHeaderTableRange(View.file_header))
    /\ (/\ Parsed
        /\ HeaderAccepted(elf_bytes)
        /\ ProgramHeaderTableRange(elf_bytes.eh).end <= USIZE_MAX
        /\ Meets(FileHeaderRange, ProgramHeaderTableRange(elf_bytes.eh)))
           => parsed = Err(E("Overlap"))

C3_Witness ==
    /\ Parsed
    /\ HeaderAccepted(elf_bytes)
    /\ elf_bytes.eh.e_phnum > 0
    /\ Meets(FileHeaderRange, ProgramHeaderTableRange(elf_bytes.eh))
    /\ parsed = Err(E("Overlap"))

\* program header i (from 1) of the table the file header of a buffer names
Segment(bytes, i) ==
    PhdrAt(bytes, bytes.eh.e_phoff + (i - 1) * size_of.Elf64Phdr)

IsLoad(bytes, i) == Segment(bytes, i).p_type = PT_LOAD

\* the PT_LOAD header before header j, 0 when there is none
PrecedingLoad(bytes, j) ==
    LET before == {i \in 1..(j - 1) : IsLoad(bytes, i)}
    IN  IF before = {} THEN 0 ELSE CHOOSE i \in before : \A k \in before : k <= i

\* PT_LOAD header j has a lower p_vaddr than the PT_LOAD header before it
Decreases(bytes, j) ==
    /\ IsLoad(bytes, j)
    /\ PrecedingLoad(bytes, j) /= 0
    /\ Segment(bytes, j).p_vaddr < Segment(bytes, PrecedingLoad(bytes, j)).p_vaddr

SegmentInBuffer(bytes, i) ==
    Segment(bytes, i).p_offset + Segment(bytes, i).p_filesz <= bytes.len

\* parse gets as far as the sweep of the program headers: the file header is
\* accepted, both header tables are read and section 0 is SHT_NULL
SweepReached(bytes) ==
    /\ HeaderAccepted(bytes)
    /\ LET pht == parse_program_header_table(bytes, FileHeaderRange, bytes.eh)
       IN  /\ pht.ok
           /\ LET sht == parse_section_header_table(bytes, FileHeaderRange,
                                                    bytes.eh, pht.v.range)
              IN  sht.ok /\ SectionZeroCheck(bytes, sht.v.table).ok

\* C4: in a buffer that parsed, the PT_LOAD program headers in table order
\* (others skipped) have non-decreasing p_vaddr and p_offset + p_filesz within
\* the buffer; and when parse reaches the sweep of the program headers and a
\* PT_LOAD header has a lower p_vaddr than the PT_LOAD header before it, the
\* ones before it being in order and in the buffer, parse returns
\* InvalidProgramHeader.
C4_LoadSegmentsInOrder ==
    /\ parsed.ok =>
          \A j \in 1..elf_bytes.eh.e_phnum :
              IsLoad(elf_bytes, j) =>
                  /\ SegmentInBuffer(elf_bytes, j)
                  /\ \A i \in 1..(j - 1) :
                         IsLoad(elf_bytes, i) =>
                             Segment(elf_bytes, i).p_vaddr <= Segment(elf_bytes, j).p_vaddr
    /\ (/\ Parsed
        /\ SweepReached(elf_bytes)
        /\ \E j \in 1..elf_bytes.eh.e_phnum :
              /\ Decreases(elf_bytes, j)
              /\ \A k \in 1..(j - 1) :
                     IsLoad(elf_bytes, k) =>
                         ~Decreases(elf_bytes, k) /\ SegmentInBuffer(elf_bytes, k))
           => parsed = Err(E("InvalidProgramHeader"))

C4_Witness ==
    /\ Parsed
    /\ SweepReached(elf_bytes)
    /\ elf_bytes.eh.e_phnum = 3
    /\ IsLoad(elf_bytes, 1)
    /\ ~IsLoad(elf_bytes, 2)
    /\ Decreases(elf_bytes, 3)
    /\ parsed = Err(E("InvalidProgramHeader"))

\* section header i (from 1) of the table the file header of a buffer names
Section(bytes, i) ==
    ShdrAt(bytes, bytes.eh.e_shoff + (i - 1) * size_of.Elf64Shdr)

SectionRange(bytes, i) ==
    Range(Section(bytes, i).sh_offset,
          Section(bytes, i).sh_offset + Section(bytes, i).sh_size)

HasFileRange(bytes, i) == Section(bytes, i).sh_type /= SHT_NOBITS

\* what the section sweep asks of section i
SectionPlaced(bytes, i) ==
    /\ Apart(SectionRange(bytes, i), FileHeaderRange)
    /\ Apart(SectionRange(bytes, i), ProgramHeaderTableRange(bytes.eh))
    /\ Apart(SectionRange(bytes, i), SectionHeaderTableRange(bytes.eh))
    /\ SectionRange(bytes, i).end <= bytes.len
    /\ \A p \in 1..(i - 1) :
           HasFileRange(bytes, p) =>
               SectionRange(bytes, i).start >= SectionRange(bytes, p).end

\* C5: in a buffer that parsed, every section header that is not SHT_NOBITS
\* has a file range that overlaps none of the three header ranges, ends within
\* the buffer and starts at or after the end of every earlier section that is
\* not SHT_NOBITS; SHT_NOBITS sections are exempt: when parse reaches the
\* section sweep and the other sections are placed so, parse returns neither
\* Overlap nor SectionNotInOrder, whatever the SHT_NOBITS headers hold.
C5_SectionsPlaced ==
    /\ parsed.ok =>
          \A i \in 1..elf_bytes.eh.e_shnum :
              HasFileRange(elf_bytes, i) => SectionPlaced(elf_bytes, i)
    /\ (/\ Parsed
        /\ SweepReached(elf_bytes)
        /\ \A i \in 1..elf_bytes.eh.e_shnum :
               HasFileRange(elf_bytes, i) => SectionPlaced(elf_bytes, i))
           => /\ parsed /= Err(E("Overlap"))
              /\ parsed /= Err(E("SectionNotInOrder"))

C5_Witness ==
    /\ parsed.ok
    /\ \E i, j, n \in 1..elf_bytes.eh.e_shnum :
          /\ i < n /\ n < j
          /\ HasFileRange(elf_bytes, i) /\ Section(elf_bytes, i).sh_size > 0
          /\ HasFileRange(elf_bytes, j) /\ Section(elf_bytes, j).sh_size > 0
          /\ ~HasFileRange(elf_bytes, n)
          /\ SectionRange(elf_bytes, n).end > elf_bytes.len
          /\ ~Apart(SectionRange(elf_bytes, n), SectionRange(elf_bytes, j))

SpecialNames == {NAME_SYMTAB, NAME_STRTAB, NAME_DYNSTR}

\* the name of section i, read from the section e_shstrndx names
NameOf(bytes, i) ==
    get_string_in_section(bytes, Section(bytes, bytes.eh.e_shstrndx + 1),
                          Section(bytes, i).sh_name, SECTION_NAME_LENGTH_MAXIMUM)

\* the sections by name: the pairs <<i, name of section i>> of the names that
\* can be read
SectionNames(bytes) ==
    {<<i, NameOf(bytes, i).v.bytes>> :
        i \in {k \in 1..bytes.eh.e_shnum : NameOf(bytes, k).ok}}

Named(names, name) == {p[1] : p \in {q \in names : q[2] = name}}

\* the section header recorded for a name: the only section of that name
Recorded(names, field, name) ==
    IF Named(names, name) = {} THEN field = None
    ELSE field.some /\ Named(names, name) = {field.v}

\* C6: a buffer that parsed has at most one section of each of the names
\* .symtab, .strtab and .dynstr, and the view records that section; when parse
\* reaches the named-section discovery and a section header carries the same
\* one of these names as an earlier one, the names up to it being readable,
\* parse returns InvalidSectionHeader.
C6_OneSectionPerName ==
    /\ parsed.ok =>
          LET names == SectionNames(elf_bytes)
          IN  /\ \A name \in SpecialNames : Cardinality(Named(names, name)) <= 1
              /\ Recorded(names, View.symbol_section_header, NAME_SYMTAB)
              /\ Recorded(names, View.symbol_names_section_header, NAME_STRTAB)
              /\ Recorded(names, View.dynamic_symbol_names_section_header, NAME_DYNSTR)
    /\ (/\ Parsed
        /\ parse_headers(elf_bytes).ok
        /\ elf_bytes.eh.e_shstrndx /= SHN_UNDEF
        /\ LET names == SectionNames(elf_bytes)
           IN  \E p, q \in names :
                  /\ p[1] < q[1]
                  /\ p[2] = q[2]
                  /\ p[2] \in SpecialNames
                  /\ \A k \in 1..q[1] : \E r \in names : r[1] = k)
           => parsed = Err(E("InvalidSectionHeader"))

C6_Witness ==
    /\ parsed = Err(E("InvalidSectionHeader"))
    /\ parse_headers(elf_bytes).ok
    /\ elf_bytes.eh.e_shstrndx /= SHN_UNDEF
    /\ LET names == SectionNames(elf_bytes)
       IN  /\ Cardinality(names) = elf_bytes.eh.e_shnum
           /\ \E name \in SpecialNames : Cardinality(Named(names, name)) = 2

\* the three conditions of slice_from_bytes, for a range start..end
RangeWithin(bytes, range) == range.start <= range.end /\ range.end <= bytes.len

RangeSized(T, range) ==
    (IF range.start <= range.end THEN range.end - range.start ELSE 0) % size_of[T] = 0

RangeAligned(T, bytes, range) == (bytes.addr + range.start) % align_of[T] = 0

\* C7: slice_from_bytes<T>(bytes, r) succeeds iff r lies within the buffer
\* (r.start <= r.end <= bytes.len()), r.len() is a multiple of sizeof(T) and
\* the address of bytes[r.start] is a multiple of alignof(T); the slice then
\* has r.len()/sizeof(T) elements from r.start; otherwise the error is that of
\* the first failing check of size, bounds, alignment.
C7_SliceFromBytes ==
    query.op = "slice_from_bytes" =>
        LET T == query.T
            r == query.range
            sized == RangeSized(T, r)
            within == RangeWithin(elf_bytes, r)
            aligned == RangeAligned(T, elf_bytes, r)
        IN  /\ query.result.ok <=> (sized /\ within /\ aligned)
            /\ query.result.ok =>
                   /\ query.result.v.start = r.start
                   /\ query.result.v.len * size_of[T] = r.end - r.start
            /\ ~sized => query.result = Err(E("InvalidSize"))
            /\ (sized /\ ~within) => query.result = Err(E("OutOfBounds"))
            /\ (sized /\ within /\ ~aligned) => query.result = Err(E("InvalidAlignment"))

C7_Witness ==
    /\ query.op = "slice_from_bytes"
    /\ ~RangeSized(query.T, query.range)
    /\ ~RangeWithin(elf_bytes, query.range)
    /\ ~RangeAligned(query.T, elf_bytes, query.range)
    /\ query.result = Err(E("InvalidSize"))

\* the string table a name query reads: section_name the section e_shstrndx
\* names, symbol_name the one named .strtab, dynamic_symbol_name .dynstr
QueriedTable ==
    IF query.op = "section_name" THEN View.section_names_section_header
    ELSE IF query.op = "symbol_name" THEN View.symbol_names_section_header
    ELSE View.dynamic_symbol_names_section_header

\* the window [sh_offset+offset, min(sh_offset+sh_size, sh_offset+offset+cap))
Window(section_header, offset, cap) ==
    Range(section_header.sh_offset + offset,
          Min(section_header.sh_offset + section_header.sh_size,
              section_header.sh_offset + offset + cap))

ZerosIn(bytes, window) ==
    {o \in window.start..(window.end - 1) : ByteAt(bytes, o) = 0}

\* C8: a byte string returned by section_name, symbol_name or
\* dynamic_symbol_name starts at sh_offset+offset and ends right before the
\* first zero byte of the window; it holds no zero byte and is no longer than
\* the cap (16 for section names, 64 for symbol names); and when the window,
\* a range of the buffer in a string table, holds no zero byte, the result is
\* StringTooLong with the cap.
C8_NamesEndAtZero ==
    (query.op \in NameQueries /\ QueriedTable.some) =>
        LET section_header == Section(elf_bytes, QueriedTable.v)
            window == Window(section_header, query.arg, query.cap)
            zeros == ZerosIn(elf_bytes, window)
            result == query.result
        IN  /\ query.cap = (IF query.op = "section_name" THEN 16 ELSE 64)
            /\ result.ok =>
                  /\ result.v.start = window.start
                  /\ StringEnd(result.v) \in zeros
                  /\ \A o \in zeros : StringEnd(result.v) <= o
                  /\ \A i \in 1..Len(result.v.bytes) :
                         /\ result.v.bytes[i] /= 0
                         /\ result.v.bytes[i] = ByteAt(elf_bytes, window.start + i - 1)
                  /\ Len(result.v.bytes) <= query.cap
            /\ (/\ section_header.sh_type = SHT_STRTAB
                /\ RangeWithin(elf_bytes, window)
                /\ zeros = {})
                   => /\ ~result.ok
                      /\ result.err.kind = "StringTooLong"
                      /\ result.err.max = query.cap

C8_Witness ==
    /\ query.op = "symbol_name"
    /\ query.result.ok
    /\ Len(query.result.v.bytes) = SYMBOL_NAME_LENGTH_MAXIMUM - 1

\* the largest of a set of numbers
SetMax(S) == CHOOSE m \in S : \A x \in S : x <= m

\* the end of what parse requires of a buffer: the file header, the two
\* header tables, the PT_LOAD segments and the sections that are not SHT_NOBITS
RequiredEnd(bytes) ==
    SetMax({FileHeaderRange.end,
            ProgramHeaderTableRange(bytes.eh).end,
            SectionHeaderTableRange(bytes.eh).end}
           \cup {Segment(bytes, i).p_offset + Segment(bytes, i).p_filesz :
                    i \in {k \in 1..bytes.eh.e_phnum : IsLoad(bytes, k)}}
           \cup {SectionRange(bytes, i).end :
                    i \in {k \in 1..bytes.eh.e_shnum : HasFileRange(bytes, k)}})

HeaderFieldWrong(eh) ==
    \/ eh.ei_mag /= ELFMAG
    \/ eh.ei_class /= ELFCLASS64
    \/ eh.ei_data /= ELFDATA2LSB
    \/ eh.ei_version /= EV_CURRENT
    \/ eh.e_version /= EV_CURRENT
    \/ eh.e_ehsize /= size_of.Elf64Ehdr
    \/ eh.e_phentsize /= size_of.Elf64Phdr
    \/ eh.e_shentsize /= size_of.Elf64Shdr
    \/ eh.e_shstrndx >= eh.e_shnum

\* C10: parse of a buffer that holds an aligned file header returns
\* InvalidFileHeader when the magic, the class, the data encoding, ei_version
\* or e_version, one of the three record sizes is not the required one or
\* e_shstrndx >= e_shnum; so it does when one byte of such a field of a
\* buffer that parsed is changed.
C10_BadHeaderRejected ==
    /\ (/\ Parsed
        /\ elf_bytes.len >= size_of.Elf64Ehdr
        /\ elf_bytes.addr % align_of.Elf64Ehdr = 0
        /\ HeaderFieldWrong(elf_bytes.eh))
           => parsed = Err(E("InvalidFileHeader"))
    /\ (Parsed /\ history.kind = "changed")
           => parsed = Err(E("InvalidFileHeader"))

C10_Witness ==
    /\ Parsed
    /\ history.kind = "changed"
    /\ history.field = "e_version"
    /\ elf_bytes.eh.ei_mag = ELFMAG
    /\ parsed = Err(E("InvalidFileHeader"))

\* the first program header of type PT_DYNAMIC, 0 when there is none
DynamicSegment(bytes) ==
    LET all == {i \in 1..bytes.eh.e_phnum : Segment(bytes, i).p_type = PT_DYNAMIC}
    IN  IF all = {} THEN 0 ELSE CHOOSE i \in all : \A k \in all : i <= k

\* the first section header of type SHT_DYNAMIC, 0 when there is none
DynamicSection(bytes) ==
    LET all == {i \in 1..bytes.eh.e_shnum : Section(bytes, i).sh_type = SHT_DYNAMIC}
    IN  IF all = {} THEN 0 ELSE CHOOSE i \in all : \A k \in all : i <= k

SegmentFileEnd(bytes, i) == Segment(bytes, i).p_offset + Segment(bytes, i).p_filesz

SegmentMemoryEnd(bytes, i) == Segment(bytes, i).p_vaddr + Segment(bytes, i).p_memsz

\* the program headers program_header_for_vaddr looks at for `vaddr`: those up
\* to the first whose range [p_vaddr, p_vaddr + p_memsz) contains it
Contains(bytes, i, vaddr) ==
    Segment(bytes, i).p_vaddr <= vaddr /\ vaddr < SegmentMemoryEnd(bytes, i)

LookedAt(bytes, vaddr) ==
    {i \in 1..bytes.eh.e_phnum : \A k \in 1..(i - 1) : ~Contains(bytes, k, vaddr)}

\* the sums and products parse computes before it reads the dynamic table
\* fit the machine word
HeaderSumsFit(bytes) ==
    /\ ProgramHeaderTableRange(bytes.eh).end <= USIZE_MAX
    /\ SectionHeaderTableRange(bytes.eh).end <= USIZE_MAX
    /\ \A i \in 1..bytes.eh.e_phnum :
           IsLoad(bytes, i) => SegmentFileEnd(bytes, i) <= USIZE_MAX
    /\ \A i \in 1..bytes.eh.e_shnum :
           HasFileRange(bytes, i) => SectionRange(bytes, i).end <= USIZE_MAX

\* those it computes to resolve DT_REL, in a view whose dynamic table has it
RelocationSumsFit(bytes, view) ==
    LET vaddr == view.dynamic_table[DT_REL]
    IN  vaddr /= 0 =>
            /\ \A i \in LookedAt(bytes, vaddr) : SegmentMemoryEnd(bytes, i) <= USIZE_MAX
            /\ \A i \in LookedAt(bytes, vaddr) :
                   Contains(bytes, i, vaddr) =>
                       /\ vaddr - Segment(bytes, i).p_vaddr + Segment(bytes, i).p_offset
                              <= USIZE_MAX
                       /\ vaddr - Segment(bytes, i).p_vaddr + Segment(bytes, i).p_offset
                              + view.dynamic_table[DT_RELSZ] <= USIZE_MAX

\* a step of the last call of parse was run, and what it returned
Ran(name) == \E k \in DOMAIN steps : steps[k].step = name

ResultOf(name) == steps[CHOOSE k \in DOMAIN steps : steps[k].step = name].result

\* parse came to the dynamic relocations; the view it had there, with the
\* dynamic table absorbed
RelocationsReached == Ran("dynamic_relocations")

ViewAtRelocations == ResultOf("dynamic_table").v.view

\* the overflows parse answers with OutOfBounds, each where parse comes to it
OverflowsRefused ==
    /\ parsed.ok =>
          /\ HeaderSumsFit(elf_bytes)
          /\ RelocationSumsFit(elf_bytes, View)
    /\ (/\ Parsed
        /\ ProgramHeaderTableRange(elf_bytes.eh).end > USIZE_MAX
        /\ HeaderAccepted(elf_bytes))
           => parsed = Err(E("OutOfBounds"))
    /\ (/\ Parsed
        /\ SectionHeaderTableRange(elf_bytes.eh).end > USIZE_MAX
        /\ HeaderAccepted(elf_bytes)
        /\ parse_program_header_table(elf_bytes, FileHeaderRange, elf_bytes.eh).ok)
           => parsed = Err(E("OutOfBounds"))
    /\ (/\ Parsed
        /\ \E j \in 1..elf_bytes.eh.e_phnum :
              /\ IsLoad(elf_bytes, j)
              /\ SegmentFileEnd(elf_bytes, j) > USIZE_MAX
              /\ \A k \in 1..j : ~Decreases(elf_bytes, k)
        /\ SweepReached(elf_bytes))
           => parsed = Err(E("OutOfBounds"))
    /\ (/\ Parsed
        /\ \E j \in 1..elf_bytes.eh.e_shnum :
              /\ HasFileRange(elf_bytes, j)
              /\ SectionRange(elf_bytes, j).end > USIZE_MAX
              /\ \A k \in 1..(j - 1) :
                     HasFileRange(elf_bytes, k) => SectionPlaced(elf_bytes, k)
        /\ SweepReached(elf_bytes)
        /\ \A k \in 1..elf_bytes.eh.e_phnum :
               IsLoad(elf_bytes, k) =>
                   ~Decreases(elf_bytes, k) /\ SegmentInBuffer(elf_bytes, k))
           => parsed = Err(E("OutOfBounds"))
    /\ (/\ Parsed
        /\ RelocationsReached
        /\ LET view == ViewAtRelocations
           IN  /\ view.dynamic_table[DT_REL] /= 0
               /\ view.dynamic_table[DT_RELENT] = size_of.Elf64Rel
               /\ view.dynamic_table[DT_RELSZ] /= 0
               /\ ~RelocationSumsFit(elf_bytes, view))
           => parsed = Err(E("OutOfBounds"))

\* C11 as stated: every sum or product of offsets, sizes and addresses that
\* parse computes is checked, parse returns OutOfBounds when one overflows,
\* and no image in which one overflows is accepted: the table ranges, the
\* PT_LOAD and PT_DYNAMIC p_offset+p_filesz, the section sh_offset+sh_size,
\* p_vaddr+p_memsz, vaddr-p_vaddr+p_offset and offset+DT_RELSZ.
C11_EveryOverflowRefused ==
    /\ OverflowsRefused
    /\ (parsed.ok /\ DynamicSegment(elf_bytes) /= 0) =>
           SegmentFileEnd(elf_bytes, DynamicSegment(elf_bytes)) <= USIZE_MAX

\* C11 amended: the same of every one of these sums and products but the
\* p_offset+p_filesz of the PT_DYNAMIC program header: when that one
\* overflows parse takes the program header as invalid and goes on to the
\* first SHT_DYNAMIC section (a static file when there is none), so that
\* such an image can be accepted.
C11_OverflowRefusedButDynamicSegment ==
    /\ OverflowsRefused
    /\ (/\ parsed.ok
        /\ DynamicSegment(elf_bytes) /= 0
        /\ SegmentFileEnd(elf_bytes, DynamicSegment(elf_bytes)) > USIZE_MAX
        /\ Ran("dynamic_table"))
           => LET table == ResultOf("dynamic_table").v.table
              IN  IF DynamicSection(elf_bytes) = 0 THEN table = None
                  ELSE /\ table.some
                       /\ table.v.start = Section(elf_bytes, DynamicSection(elf_bytes)).sh_offset

C11_Witness ==
    /\ parsed = Err(E("OutOfBounds"))
    /\ RelocationsReached
    /\ ViewAtRelocations.dynamic_table[DT_REL] /= 0
    /\ \E i \in LookedAt(elf_bytes, ViewAtRelocations.dynamic_table[DT_REL]) :
          SegmentMemoryEnd(elf_bytes, i) > USIZE_MAX

\* entry i (from 1) of an Elf64Dyn slice of the buffer
DynEntry(bytes, table, i) == DynAt(bytes, table.start + (i - 1) * size_of.Elf64Dyn)

\* the entries before the first one with d_tag = DT_NULL, each as
\* <<place, d_tag, d_val>>
BeforeNull(bytes, table) ==
    LET nulls == {i \in 1..table.len : DynEntry(bytes, table, i).d_tag = DT_NULL}
        last == IF nulls = {} THEN table.len
                ELSE (CHOOSE i \in nulls : \A k \in nulls : i <= k) - 1
    IN  {<<i, DynEntry(bytes, table, i).d_tag, DynEntry(bytes, table, i).d_val>> :
            i \in 1..last}

\* the d_val of the last of these entries with tag t, else 0
LastValue(entries, t) ==
    LET with == {e \in entries : e[2] = t}
    IN  IF with = {} THEN 0 ELSE (CHOOSE e \in with : \A f \in with : f[1] <= e[1])[3]

\* the Elf64Dyn slice parse_dynamic chose, when it found one
DynamicTableFound == Ran("dynamic_table") /\ ResultOf("dynamic_table").ok
                     /\ ResultOf("dynamic_table").v.table.some

\* C12: after the dynamic table is absorbed, dynamic_table[t] is, for every
\* tag t < DT_NUM, the d_val of the last entry with d_tag = t before the first
\* entry with d_tag = DT_NULL, and 0 when there is none; entries with
\* d_tag >= DT_NUM and entries after the first DT_NULL change nothing.
C12_DynamicTableAbsorbed ==
    DynamicTableFound =>
        LET entries == BeforeNull(elf_bytes, ResultOf("dynamic_table").v.table.v)
            view == ResultOf("dynamic_table").v.view
        IN  /\ DOMAIN view.dynamic_table = 0..(DT_NUM - 1)
            /\ \A t \in 0..(DT_NUM - 1) : view.dynamic_table[t] = LastValue(entries, t)
            /\ parsed.ok => View.dynamic_table = view.dynamic_table

C12_Witness ==
    /\ parsed.ok
    /\ DynamicTableFound
    /\ \E e, f \in BeforeNull(elf_bytes, ResultOf("dynamic_table").v.table.v) :
          /\ e[1] < f[1]
          /\ e[2] = f[2]
          /\ e[3] /= f[3]
          /\ View.dynamic_table[e[2]] = f[3]

\* the range start..start+size of the buffer is an Elf64Dyn slice: the sum
\* fits the machine word, the range lies within the buffer, its length is a
\* multiple of the size of Elf64Dyn and its address is aligned for it
IsDynSlice(bytes, start, size) ==
    /\ start + size <= USIZE_MAX
    /\ RangeWithin(bytes, Range(start, start + size))
    /\ RangeSized("Elf64Dyn", Range(start, start + size))
    /\ RangeAligned("Elf64Dyn", bytes, Range(start, start + size))

DynSlice(start, size) ==
    Some([T |-> "Elf64Dyn", start |-> start, len |-> size \div size_of.Elf64Dyn])

\* the first PT_DYNAMIC program header is there and is an Elf64Dyn slice
DynamicSegmentValid(bytes) ==
    /\ DynamicSegment(bytes) /= 0
    /\ IsDynSlice(bytes, Segment(bytes, DynamicSegment(bytes)).p_offset,
                  Segment(bytes, DynamicSegment(bytes)).p_filesz)

DynamicSectionValid(bytes) ==
    /\ DynamicSection(bytes) /= 0
    /\ IsDynSlice(bytes, Section(bytes, DynamicSection(bytes)).sh_offset,
                  Section(bytes, DynamicSection(bytes)).sh_size)

\* C13: where parse comes to the dynamic table, it uses the first PT_DYNAMIC
\* program header when there is one and its p_offset..p_offset+p_filesz is an
\* Elf64Dyn slice; otherwise the first SHT_DYNAMIC section, and parse returns
\* InvalidDynamicSectionTable when that is no Elf64Dyn slice; with neither a
\* PT_DYNAMIC program header nor an SHT_DYNAMIC section the image is static
\* and parse succeeds with no dynamic relocations and no dynamic symbols.
C13_DynamicTableSource ==
    Ran("dynamic_table") =>
        LET source == ResultOf("dynamic_table")
            segment == Segment(elf_bytes, DynamicSegment(elf_bytes))
            section == Section(elf_bytes, DynamicSection(elf_bytes))
        IN  IF DynamicSegmentValid(elf_bytes)
            THEN /\ source.ok
                 /\ source.v.table = DynSlice(segment.p_offset, segment.p_filesz)
            ELSE IF DynamicSectionValid(elf_bytes)
            THEN /\ source.ok
                 /\ source.v.table = DynSlice(section.sh_offset, section.sh_size)
            ELSE IF DynamicSection(elf_bytes) /= 0
            THEN /\ source = Err(E("InvalidDynamicSectionTable"))
                 /\ parsed = source
            ELSE /\ source.ok
                 /\ source.v.table = None
                 /\ parsed.ok
                 /\ View.dynamic_relocations_table = None
                 /\ View.dynamic_symbol_table = None

C13_Witness ==
    /\ Ran("dynamic_table")
    /\ DynamicSegment(elf_bytes) /= 0
    /\ ~DynamicSegmentValid(elf_bytes)
    /\ DynamicSectionValid(elf_bytes)
    /\ Section(elf_bytes, DynamicSection(elf_bytes)).sh_offset
           /= Segment(elf_bytes, DynamicSegment(elf_bytes)).p_offset
    /\ parsed.ok
    /\ View.dynamic_relocations_table /= None

\* parse came to resolve DT_REL: the table has a non-zero DT_REL, DT_RELENT is
\* the size of Elf64Rel and DT_RELSZ is not zero
RelocationsResolved ==
    /\ RelocationsReached
    /\ ViewAtRelocations.dynamic_table[DT_REL] /= 0
    /\ ViewAtRelocations.dynamic_table[DT_RELENT] = size_of.Elf64Rel
    /\ ViewAtRelocations.dynamic_table[DT_RELSZ] /= 0

\* the PT_LOAD program headers whose [p_vaddr, p_vaddr + p_memsz) contains vaddr
LoadsWith(bytes, vaddr) ==
    {i \in 1..bytes.eh.e_phnum : IsLoad(bytes, i) /\ Contains(bytes, i, vaddr)}

\* the section headers with sh_addr = vaddr
SectionsAt(bytes, vaddr) ==
    {i \in 1..bytes.eh.e_shnum : Section(bytes, i).sh_addr = vaddr}

\* vaddr - p_vaddr + p_offset of program header i
SegmentOffsetOf(bytes, i, vaddr) ==
    vaddr - Segment(bytes, i).p_vaddr + Segment(bytes, i).p_offset

\* C14: when DT_REL is not zero and DT_RELENT and DT_RELSZ are valid, the
\* relocation table starts at vaddr - p_vaddr + p_offset of a PT_LOAD program
\* header whose [p_vaddr, p_vaddr + p_memsz) contains DT_REL; only when no
\* PT_LOAD program header contains it, at the sh_offset of a section header
\* with sh_addr = DT_REL; with neither, parse returns
\* InvalidDynamicSectionTable.  A program header of another type never gives
\* the offset.
C14_RelocationsFromLoadSegment ==
    (RelocationsResolved /\ RelocationSumsFit(elf_bytes, ViewAtRelocations)) =>
        LET vaddr == ViewAtRelocations.dynamic_table[DT_REL]
            loads == LoadsWith(elf_bytes, vaddr)
            sections == SectionsAt(elf_bytes, vaddr)
            table == ResultOf("dynamic_relocations")
        IN  /\ (table.ok /\ loads /= {}) =>
                   \E i \in loads : table.v.v.start = SegmentOffsetOf(elf_bytes, i, vaddr)
            /\ (table.ok /\ loads = {}) =>
                   \E i \in sections : table.v.v.start = Section(elf_bytes, i).sh_offset
            /\ (loads = {} /\ sections = {}) =>
                   /\ table = Err(E("InvalidDynamicSectionTable"))
                   /\ parsed = table

\* parse came to the dynamic symbols
SymbolsReached == Ran("dynamic_symbols")

\* the first section header with sh_addr = vaddr, 0 when there is none
FirstSectionAt(bytes, vaddr) ==
    LET all == SectionsAt(bytes, vaddr)
    IN  IF all = {} THEN 0 ELSE CHOOSE i \in all : \A k \in all : i <= k

IsSymbolSection(bytes, i) ==
    Section(bytes, i).sh_type = SHT_SYMTAB \/ Section(bytes, i).sh_type = SHT_DYNSYM

\* C15: when DT_SYMTAB is not zero the dynamic symbol table is that of the
\* first section header with sh_addr = DT_SYMTAB; with no such section header
\* parse returns InvalidDynamicSectionTable, whatever the program headers
\* are; when that section is neither SHT_SYMTAB nor SHT_DYNSYM parse returns
\* InvalidSectionHeader; when DT_SYMTAB is zero there is no dynamic symbol
\* table.
C15_DynamicSymbolsFromSection ==
    SymbolsReached =>
        LET vaddr == ViewAtRelocations.dynamic_table[DT_SYMTAB]
            first == FirstSectionAt(elf_bytes, vaddr)
            table == ResultOf("dynamic_symbols")
        IN  /\ parsed = (IF table.ok THEN parsed ELSE table)
            /\ IF vaddr = 0
               THEN table = Ok(None) /\ parsed.ok /\ View.dynamic_symbol_table = None
               ELSE IF first = 0
               THEN table = Err(E("InvalidDynamicSectionTable"))
               ELSE IF ~IsSymbolSection(elf_bytes, first)
               THEN table = Err(E("InvalidSectionHeader"))
               ELSE table.ok =>
                        /\ parsed.ok
                        /\ View.dynamic_symbol_table = table.v
                        /\ table.v.some
                        /\ table.v.v.start = Section(elf_bytes, first).sh_offset
                        /\ table.v.v.len * size_of.Elf64Sym = Section(elf_bytes, first).sh_size

C15_Witness ==
    /\ SymbolsReached
    /\ parsed.ok
    /\ View.dynamic_symbol_table.some
    /\ \E i \in SectionsAt(elf_bytes, ViewAtRelocations.dynamic_table[DT_SYMTAB]) :
          /\ i /= FirstSectionAt(elf_bytes, ViewAtRelocations.dynamic_table[DT_SYMTAB])
          /\ Section(elf_bytes, i).sh_offset /= View.dynamic_symbol_table.v.start

\* the steps of parse in the order of its code
StepOrder ==
    <<"file_header", "header_fields", "program_header_table", "section_header_table",
      "section_zero", "program_sweep", "section_sweep", "section_names",
      "named_sections", "dynamic_table", "dynamic_relocations", "dynamic_symbols">>

LastStep == steps[Len(steps)]

\* C16: parse runs its steps in one fixed order and returns the error of the
\* first step that fails, without running a later step; what it returns on an
\* error holds no view; and a buffer with a bad magic whose program header
\* table shares bytes with the file header is refused with InvalidFileHeader,
\* the program header table never read.
C16_FirstFailingStep ==
    Parsed =>
        /\ Len(steps) \in 1..Len(StepOrder)
        /\ \A k \in DOMAIN steps : steps[k].step = StepOrder[k]
        /\ \A k \in 1..(Len(steps) - 1) : steps[k].result.ok
        /\ parsed.ok = LastStep.result.ok
        /\ ~parsed.ok => parsed = LastStep.result /\ DOMAIN parsed = {"ok", "err"}
        /\ parsed.ok =>
               \/ Len(steps) = Len(StepOrder)
               \/ LastStep.step = "dynamic_table" /\ LastStep.result.v.table = None
        /\ (/\ elf_bytes.len >= size_of.Elf64Ehdr
            /\ elf_bytes.addr % align_of.Elf64Ehdr = 0
            /\ elf_bytes.eh.ei_mag /= ELFMAG
            /\ Meets(FileHeaderRange, ProgramHeaderTableRange(elf_bytes.eh)))
               => /\ parsed = Err(E("InvalidFileHeader"))
                  /\ LastStep.step = "header_fields"

C16_Witness ==
    /\ Parsed
    /\ elf_bytes.eh.ei_mag /= ELFMAG
    /\ parse_program_header_table(elf_bytes, FileHeaderRange, elf_bytes.eh) = Err(E("Overlap"))
    /\ parsed = Err(E("InvalidFileHeader"))
    /\ ~Ran("program_header_table")

\* an instruction was disassembled
Disassembled == query.op = "disassemble_instruction"

\* the conditional jumps with an immediate and with a register, and the
\* branches
ImmediateJumps ==
    {ebpf.JEQ_IMM, ebpf.JGT_IMM, ebpf.JGE_IMM, ebpf.JLT_IMM, ebpf.JLE_IMM, ebpf.JSET_IMM, ebpf.JNE_IMM, ebpf.JSGT_IMM,
     ebpf.JSGE_IMM, ebpf.JSLT_IMM, ebpf.JSLE_IMM}

RegisterJumps ==
    {ebpf.JEQ_REG, ebpf.JGT_REG, ebpf.JGE_REG, ebpf.JLT_REG, ebpf.JLE_REG, ebpf.JSET_REG, ebpf.JNE_REG, ebpf.JSGT_REG,
     ebpf.JSGE_REG, ebpf.JSLT_REG, ebpf.JSLE_REG}

Branches == {ebpf.JA} \cup ImmediateJumps \cup RegisterJumps

\* the mnemonic of a branch
BranchName(opc) ==
    CASE opc = ebpf.JA -> "ja"
      [] opc \in {ebpf.JEQ_IMM, ebpf.JEQ_REG} -> "jeq"
      [] opc \in {ebpf.JGT_IMM, ebpf.JGT_REG} -> "jgt"
      [] opc \in {ebpf.JGE_IMM, ebpf.JGE_REG} -> "jge"
      [] opc \in {ebpf.JLT_IMM, ebpf.JLT_REG} -> "jlt"
      [] opc \in {ebpf.JLE_IMM, ebpf.JLE_REG} -> "jle"
      [] opc \in {ebpf.JSET_IMM, ebpf.JSET_REG} -> "jset"
      [] opc \in {ebpf.JNE_IMM, ebpf.JNE_REG} -> "jne"
      [] opc \in {ebpf.JSGT_IMM, ebpf.JSGT_REG} -> "jsgt"
      [] opc \in {ebpf.JSGE_IMM, ebpf.JSGE_REG} -> "jsge"
      [] opc \in {ebpf.JSLT_IMM, ebpf.JSLT_REG} -> "jslt"
      [] opc \in {ebpf.JSLE_IMM, ebpf.JSLE_REG} -> "jsle"

\* insn.ptr + insn.off + 1 in signed arithmetic, cast to an unsigned index
BranchTarget(insn) ==
    LET target == insn.ptr + insn.off + 1
    IN  IF target < 0 THEN target + (USIZE_MAX + 1) ELSE target

\* the label of the node at `target`, [invalid] when no node is there
LabelAt(cfg_nodes, target) ==
    IF \E node \in DOMAIN cfg_nodes : node = target
    THEN cfg_nodes[target].label
    ELSE "[invalid]"

\* the text of a branch with a given label
BranchText(insn, label) ==
    IF insn.opc = ebpf.JA THEN BranchName(insn.opc) \o " " \o label
    ELSE IF insn.opc \in ImmediateJumps
    THEN BranchName(insn.opc) \o " r" \o ToString(insn.dst) \o ", "
             \o ToString(insn.imm) \o ", " \o label
    ELSE BranchName(insn.opc) \o " r" \o ToString(insn.dst) \o ", r"
             \o ToString(insn.src) \o ", " \o label

\* the program counters a call can be made with
ProgramCounters == {context.pc : context \in Contexts} \cup {1, USIZE_MAX}

\* C17: for ja and every conditional jump, with an immediate or a register,
\* the label printed is that of cfg_nodes at insn.ptr + insn.off + 1 (signed,
\* cast to an unsigned index) when cfg_nodes has a node there and [invalid]
\* otherwise; the pc argument has no part in it; JEQ_IMM with dst = 1,
\* imm = 7, off = -4, ptr = 10 and cfg_nodes[7].label = "loop" is rendered
\* jeq r1, 7, loop.
C17_BranchLabel ==
    (Disassembled /\ query.insn.opc \in Branches) =>
        /\ query.result
               = BranchText(query.insn, LabelAt(query.cfg_nodes, BranchTarget(query.insn)))
        /\ \A at \in ProgramCounters :
               disassemble_instruction(query.insn, at, query.cfg_nodes,
                                       query.function_registry, query.loader,
                                       query.sbpf_version) = query.result
        /\ (/\ query.insn = Insn(ebpf.JEQ_IMM, 1, query.insn.src, -4, 7, 10)
            /\ 7 \in DOMAIN query.cfg_nodes
            /\ query.cfg_nodes[7].label = "loop")
               => query.result = "jeq r1, 7, loop"

C17_Witness ==
    /\ Disassembled
    /\ query.insn.opc = ebpf.JNE_REG
    /\ query.insn.ptr + query.insn.off + 1 < 0
    /\ query.result = "jne r10, r9, last"

\* the loaders a call can be made with
Loaders == {context.loader : context \in Contexts}

\* a registry has a name under a key
HasKey(registry, key) == \E k \in DOMAIN registry : k = key

\* C18: a CALL_IMM whose key calculate_call_imm_target_pc(pc, imm) is in the
\* function registry is rendered call <name>; otherwise, when static_syscalls
\* is false, syscall <name> with the name the loader's registry has under
\* imm as u32, and syscall [invalid] when it has none; otherwise
\* call [invalid], whatever the loader's registry holds.
C18_CallImmediate ==
    (Disassembled /\ query.insn.opc = ebpf.CALL_IMM) =>
        LET key == calculate_call_imm_target_pc(query.sbpf_version, query.pc,
                                                query.insn.imm)
            syscalls == query.loader.function_registry
            code == query.insn.imm % (USIZE_MAX + 1)
        IN  IF HasKey(query.function_registry, key)
            THEN query.result = "call " \o NameString(query.function_registry[key])
            ELSE IF ~query.sbpf_version.static_syscalls
            THEN IF HasKey(syscalls, code)
                 THEN query.result = "syscall " \o NameString(syscalls[code])
                 ELSE query.result = "syscall [invalid]"
            ELSE /\ query.result = "call [invalid]"
                 /\ \A loader \in Loaders :
                        disassemble_instruction(query.insn, query.pc, query.cfg_nodes,
                                                query.function_registry, loader,
                                                query.sbpf_version) = query.result

C18_Witness ==
    /\ Disassembled
    /\ query.insn.opc = ebpf.CALL_IMM
    /\ query.sbpf_version.static_syscalls
    /\ HasKey(query.loader.function_registry, query.insn.imm % (USIZE_MAX + 1))
    /\ query.result = "call [invalid]"

\* a memory mnemonic: the form of its text, its legacy and its moved opcode,
\* and the ALU instruction that has the moved opcode too ("none": there is
\* none), with the predicate that has to be false for it to be active
Memory(name, form, legacy, moved, other, other_form, unless) ==
    [name |-> name, form |-> form, legacy |-> legacy, moved |-> moved,
     other |-> other, other_form |-> other_form, unless |-> unless]

MemoryMnemonics ==
    {Memory("ldxb", "ld_reg", ebpf.LD_B_REG, ebpf.LD_1B_REG, "mul32", "alu_reg", "enable_pqr"),
     Memory("ldxh", "ld_reg", ebpf.LD_H_REG, ebpf.LD_2B_REG, "div32", "alu_reg", "enable_pqr"),
     Memory("ldxw", "ld_reg", ebpf.LD_W_REG, ebpf.LD_4B_REG, "none", "none", "none"),
     Memory("ldxdw", "ld_reg", ebpf.LD_DW_REG, ebpf.LD_8B_REG, "mod32", "alu_reg", "enable_pqr"),
     Memory("stb", "ld_st_imm", ebpf.ST_B_IMM, ebpf.ST_1B_IMM, "mul64", "alu_imm", "enable_pqr"),
     Memory("sth", "ld_st_imm", ebpf.ST_H_IMM, ebpf.ST_2B_IMM, "div64", "alu_imm", "enable_pqr"),
     Memory("stw", "ld_st_imm", ebpf.ST_W_IMM, ebpf.ST_4B_IMM, "neg64", "neg", "disable_neg"),
     Memory("stdw", "ld_st_imm", ebpf.ST_DW_IMM, ebpf.ST_8B_IMM, "mod64", "alu_imm", "enable_pqr"),
     Memory("stxb", "st_reg", ebpf.ST_B_REG, ebpf.ST_1B_REG, "mul64", "alu_reg", "enable_pqr"),
     Memory("stxh", "st_reg", ebpf.ST_H_REG, ebpf.ST_2B_REG, "div64", "alu_reg", "enable_pqr"),
     Memory("stxw", "st_reg", ebpf.ST_W_REG, ebpf.ST_4B_REG, "none", "none", "none"),
     Memory("stxdw", "st_reg", ebpf.ST_DW_REG, ebpf.ST_8B_REG, "mod64", "alu_reg", "enable_pqr")}

\* the text of an instruction under a mnemonic and a form
TextOf(name, form, insn) ==
    CASE form = "ld_reg" -> ld_reg_str(name, insn)
      [] form = "ld_st_imm" -> ld_st_imm_str(name, insn)
      [] form = "st_reg" -> st_reg_str(name, insn)
      [] form = "alu_imm" -> alu_imm_str(name, insn)
      [] form = "alu_reg" -> alu_reg_str(name, insn)
      [] form = "neg" -> name \o " r" \o ToString(insn.dst)

UnknownText(insn) == "unknown opcode=" \o LowerHex(insn.opc)

\* the legacy opcode of a memory mnemonic is rendered as the mnemonic when
\* move_memory_instruction_classes is false and as unknown when it is true
LegacyEncoding(m) ==
    (Disassembled /\ query.insn.opc = m.legacy) =>
        query.result = (IF ~query.sbpf_version.move_memory_instruction_classes
                        THEN TextOf(m.name, m.form, query.insn)
                        ELSE UnknownText(query.insn))

\* C19 as stated: in every dialect, of the two encodings of every memory
\* mnemonic the legacy opcode is rendered as the mnemonic iff
\* move_memory_instruction_classes is false and the moved opcode iff it is
\* true; the one the predicate does not permit is rendered
\* unknown opcode=0x<opc>.
C19_OneEncodingPerDialect ==
    \A m \in MemoryMnemonics :
        /\ LegacyEncoding(m)
        /\ (Disassembled /\ query.insn.opc = m.moved) =>
               query.result = (IF query.sbpf_version.move_memory_instruction_classes
                               THEN TextOf(m.name, m.form, query.insn)
                               ELSE UnknownText(query.insn))

\* the ALU instruction with the moved opcode of m is active in a dialect
OtherActive(m, sbpf_version) == m.other /= "none" /\ ~sbpf_version[m.unless]

\* the ALU arm with the moved opcode of m comes before the memory arm in the
\* match: mul, div and mod do, neg64 comes after stw
OtherFirst(m) == m.unless = "enable_pqr"

\* C19 amended: the legacy opcode is rendered as the mnemonic iff
\* move_memory_instruction_classes is false, and as unknown otherwise.  The
\* moved opcode is the opcode of an ALU instruction too for every mnemonic
\* but ldxw and stxw (mul32, div32, mod32 with a register for the loads,
\* mul64, div64, mod64 for the stores, neg64 for stw), and the first arm of
\* the match that is active takes it: the moved opcode is rendered as the
\* mnemonic iff move_memory_instruction_classes is true and, for the
\* opcodes of mul, div and mod, enable_pqr is true as well; otherwise as the
\* ALU instruction when that one is active, and as unknown when neither is.
C19_FirstActiveEncoding ==
    \A m \in MemoryMnemonics :
        /\ LegacyEncoding(m)
        /\ (Disassembled /\ query.insn.opc = m.moved) =>
               LET moved == query.sbpf_version.move_memory_instruction_classes
                   other == OtherActive(m, query.sbpf_version)
               IN  query.result
                       = (IF moved /\ ~(other /\ OtherFirst(m))
                          THEN TextOf(m.name, m.form, query.insn)
                          ELSE IF other
                          THEN TextOf(m.other, m.other_form, query.insn)
                          ELSE UnknownText(query.insn))

C19_Witness ==
    /\ Disassembled
    /\ query.insn.opc = ebpf.LD_1B_REG
    /\ query.sbpf_version.move_memory_instruction_classes
    /\ ~query.sbpf_version.enable_pqr
    /\ query.result = "mul32 r1, r2"

\* the registries of programs a call can be made with
Registries == {context.function_registry : context \in Contexts}

\* C20: the text of the EXIT, RETURN and SYSCALL opcodes depends on
\* static_syscalls alone among the predicates.  When it is false EXIT is
\* rendered exit and RETURN is not recognized; when it is true RETURN is
\* rendered return, SYSCALL is rendered syscall <imm> with the immediate in
\* decimal and no lookup in a registry, and no opcode is rendered exit.
C20_ProgramEnd ==
    Disassembled =>
        LET insn == query.insn
            static == query.sbpf_version.static_syscalls
        IN  /\ (~static /\ insn.opc = ebpf.EXIT) => query.result = "exit"
            /\ (~static /\ insn.opc = ebpf.RETURN) => query.result = UnknownText(insn)
            /\ (static /\ insn.opc = ebpf.RETURN) => query.result = "return"
            /\ (static /\ insn.opc = ebpf.SYSCALL) =>
                   /\ query.result = "syscall " \o ToString(insn.imm)
                   /\ \A registry \in Registries, loader \in Loaders :
                          disassemble_instruction(insn, query.pc, query.cfg_nodes,
                                                  registry, loader, query.sbpf_version)
                              = query.result
            /\ static => query.result /= "exit"
            /\ insn.opc \in {ebpf.EXIT, ebpf.RETURN, ebpf.SYSCALL} =>
                   \A sbpf_version \in Dialects :
                       sbpf_version.static_syscalls = static =>
                           disassemble_instruction(insn, query.pc, query.cfg_nodes,
                                                   query.function_registry, query.loader,
                                                   sbpf_version) = query.result

C20_Witness ==
    /\ Disassembled
    /\ query.insn.opc = ebpf.SYSCALL
    /\ query.sbpf_version.static_syscalls
    /\ HasKey(query.loader.function_registry, query.insn.imm)
    /\ query.result = "syscall 57005"

\* the name of the i-th section header, read through the section header at
\* place `names`: the window of 16 bytes from its sh_name lies in the buffer
\* and holds a zero byte
NameResolves(bytes, names, i) ==
    LET window == Window(Section(bytes, names), Section(bytes, i).sh_name, 16)
    IN  RangeWithin(bytes, window) /\ ZerosIn(bytes, window) /= {}

\* what every parsed view has: 1 <= e_shstrndx < e_shnum, the section header
\* at e_shstrndx is the section name table of the view and a SHT_STRTAB, and
\* the name of every section header resolves through it
NamedView ==
    LET header == elf_bytes.eh
    IN  /\ 1 <= header.e_shstrndx
        /\ header.e_shstrndx < header.e_shnum
        /\ header.e_shnum >= 2
        /\ View.section_names_section_header = Some(header.e_shstrndx + 1)
        /\ Section(elf_bytes, header.e_shstrndx + 1).sh_type = SHT_STRTAB
        /\ \A i \in 1..header.e_shnum : NameResolves(elf_bytes, header.e_shstrndx + 1, i)

\* section_name never answers NoSectionNameStringTable
SectionNameHasTable ==
    query.op = "section_name" => query.result /= Err(E("NoSectionNameStringTable"))

\* C21 as stated: every parsed view has 1 <= e_shstrndx < e_shnum, a
\* SHT_STRTAB section header at e_shstrndx and section names that all resolve
\* to a zero-terminated string in a window of 16 bytes; a buffer with
\* e_shstrndx = SHN_UNDEF is rejected with NoSectionNameStringTable; and
\* section_name never returns NoSectionNameStringTable on a parsed view.
C21_UndefinedIndexNoTable ==
    /\ (Parsed /\ parsed.ok) => NamedView
    /\ (Parsed /\ elf_bytes.eh.e_shstrndx = SHN_UNDEF) =>
           parsed = Err(E("NoSectionNameStringTable"))
    /\ SectionNameHasTable

\* C21, amended: every parsed view has 1 <= e_shstrndx < e_shnum, a
\* SHT_STRTAB section header at e_shstrndx and section names that all resolve
\* to a zero-terminated string in a window of 16 bytes; a buffer with
\* e_shstrndx = SHN_UNDEF is always rejected, with NoSectionNameStringTable
\* when parse comes to the named sections and with the error of the earlier
\* step that failed otherwise (InvalidFileHeader when e_shnum = 0 in a header
\* that is valid but for that); and section_name never returns
\* NoSectionNameStringTable on a parsed view.
C21_SectionNameTable ==
    /\ (Parsed /\ parsed.ok) => NamedView
    /\ (Parsed /\ elf_bytes.eh.e_shstrndx = SHN_UNDEF) =>
           /\ ~parsed.ok
           /\ Ran("named_sections") <=> parsed = Err(E("NoSectionNameStringTable"))
           /\ ~Ran("named_sections") => parsed = LastStep.result
           /\ (Ran("header_fields") /\ elf_bytes.eh.e_shnum = 0) =>
                  parsed = Err(E("InvalidFileHeader"))
    /\ SectionNameHasTable

\* a parsed view is asked for a section name that its table does not end
C21_Witness ==
    /\ Parsed
    /\ parsed.ok
    /\ elf_bytes.eh.e_shnum >= 3
    /\ query.op = "section_name"
    /\ ~query.result.ok

\* what get_symbol_table_of_section answers for section i of a buffer whose
\* sections lie in it: the error of its type, of its size, of its alignment,
\* or the Elf64Sym records of its range
SymbolsOf(bytes, i) ==
    LET range == SectionRange(bytes, i)
    IN  IF ~IsSymbolSection(bytes, i) THEN Err(E("InvalidSectionHeader"))
        ELSE IF ~RangeSized("Elf64Sym", range) THEN Err(E("InvalidSize"))
        ELSE IF ~RangeAligned("Elf64Sym", bytes, range) THEN Err(E("InvalidAlignment"))
        ELSE Ok([T |-> "Elf64Sym", start |-> range.start,
                 len |-> (range.end - range.start) \div size_of.Elf64Sym])

\* C22: on a parsed view symbol_table() returns Ok(None) iff no section is
\* named .symtab; otherwise it returns InvalidSectionHeader when that section
\* is neither SHT_SYMTAB nor SHT_DYNSYM, InvalidSize or InvalidAlignment when
\* its range is no whole, aligned array of Elf64Sym, and the typed slice
\* otherwise: parse records the section by name and does not validate it.
\* The dynamic symbol table of a parsed view is validated by parse: it is
\* there whenever DT_SYMTAB is not zero, and it is the typed slice of a
\* symbol section.
C22_SymbolTableDeferred ==
    /\ query.op = "symbol_table" =>
           LET named == Named(SectionNames(elf_bytes), NAME_SYMTAB)
           IN  /\ parsed.ok
               /\ query.result = Ok(None) <=> named = {}
               /\ \A i \in named :
                      LET table == SymbolsOf(elf_bytes, i)
                      IN  query.result = (IF table.ok THEN Ok(Some(table.v)) ELSE table)
    /\ (Parsed /\ parsed.ok) =>
           /\ View.dynamic_symbol_table.some <=> View.dynamic_table[DT_SYMTAB] /= 0
           /\ View.dynamic_symbol_table.some =>
                  \E i \in 1..elf_bytes.eh.e_shnum :
                      /\ Section(elf_bytes, i).sh_addr = View.dynamic_table[DT_SYMTAB]
                      /\ SymbolsOf(elf_bytes, i) = Ok(View.dynamic_symbol_table.v)
                      /\ RangeWithin(elf_bytes, SectionRange(elf_bytes, i))

\* a buffer that parsed whose section named .symtab is a symbol section of
\* whole records that is not aligned: symbol_table() fails on the view
C22_Witness ==
    /\ parsed.ok
    /\ query.op = "symbol_table"
    /\ query.result = Err(E("InvalidAlignment"))
    /\ \E i \in Named(SectionNames(elf_bytes), NAME_SYMTAB) :
           /\ IsSymbolSection(elf_bytes, i)
           /\ Section(elf_bytes, i).sh_size = size_of.Elf64Sym

=============================================================================
